---- MODULE Spec2Model ----
(***************************************************************************)
(* Model of the ebay-sync-app core:                                        *)
(*   - the in-memory pipeline job tracker                                   *)
(*     (src/src/sync/attribute-mapping-service.ts, lines 416-543);          *)
(*   - the `sync` command with watch mode (src/unnamed/part_002, 139-233);  *)
(*   - the attribute-mapping service: mapping rules, their resolution, the  *)
(*     listing-field helpers and the per-product overrides                  *)
(*     (src/src/sync/attribute-mapping-service.ts, lines 1-415).            *)
(* Each component has its own specification; the variables of the other    *)
(* component stay at their initial value.                                   *)
(***************************************************************************)
EXTENDS Integers, Sequences, FiniteSets, TLC

VARIABLES
    jobs,       \* the Map `jobs`, as the sequence of its values in insertion order
    now,        \* the clock read by Date.now() / new Date()
    created,    \* history: the ids returned by createPipelineJob, in call order
    born,       \* history: for each entry of `jobs`, the number of the creation that wrote it
    evicted,    \* history: creation numbers of the jobs removed by eviction, in order
    lastOp,     \* history: the tracker call made last, and whether it found its job and step
    procAlive,  \* the node process of the sync command is running
    exitCode,   \* process.exitCode / the code given to process.exit
    mainPc,     \* position of the command's action callback
    armed,      \* the delay in ms given to setInterval(runSync, ...), 0 before the call
    runs,       \* the invocations of runSync, one record per slot
    opts,       \* the options the sync command was started with
    mappings,   \* the rows of table attribute_mappings, in rowid order
    overrides,  \* the rows of table product_mapping_overrides, in rowid order
    overrideSchema,   \* how the build declares product_mapping_overrides (its DDL is not in the source)
    overrideSequence, \* sqlite_sequence.seq of product_mapping_overrides (0 without AUTOINCREMENT)
    realDigits, \* the power of ten from which this build of SQLite prints a REAL with an exponent
    lastInsertRowid, \* the database connection's rowid of the last successful INSERT
    sequence,   \* sqlite_sequence.seq of attribute_mappings: the largest id handed out
    bulk,       \* the call of updateMappingsBulk in progress and its position
    helper,     \* the call of a listing-field helper in progress: its position and its locals
    ret         \* history: the mapping-service call made last, its arguments and result

pipelineVars == <<jobs, now, created, born, evicted, lastOp>>
syncVars == <<procAlive, exitCode, mainPc, armed, runs, opts>>
storeVars == <<mappings, overrides, overrideSchema, overrideSequence, realDigits, lastInsertRowid,
              sequence, bulk, helper, ret>>
vars == <<jobs, now, created, born, evicted, lastOp, procAlive, exitCode, mainPc, armed, runs, opts,
          mappings, overrides, overrideSchema, overrideSequence, realDigits, lastInsertRowid, sequence,
          bulk, helper, ret>>

----------------------------------------------------------------------------
(* Bounds of the model *)

\* The capacity of the store. The source sets 200 (line 449); createPipelineJob
\* reads it only in `jobs.size >= MAX_JOBS`, so the model checks a small capacity.
MAX_JOBS == 3
\* createPipelineJob is called at most this many times in a behaviour.
MaxCreates == 5
\* The clock takes the values 0..MaxClock.
MaxClock == 1
\* Math.random().toString(36).slice(2, 8) yields one of the suffixes 0..MaxRand.
MaxRand == 1
\* The step-update specification creates at most this many jobs.
MaxStepJobs == 1
\* At most this many invocations of runSync are in progress at once.
MaxActive == 2
\* Longest batch handed to updateMappingsBulk and to importMappings.
MaxBatch == 2
\* Largest rowid handed out in product_mapping_overrides.
MaxOverrideId == 4
MaxFrameJobs == 2
\* Largest id handed out in attribute_mappings.
MaxSequence == 6

----------------------------------------------------------------------------
(* Pipeline job tracker *)

STEP_NAMES == <<"fetch_product", "generate_description", "process_images",
                "create_ebay_listing">>

StepStatus == {"pending", "running", "done", "error"}

\* An optional string field that was never assigned.
Undefined == "undefined"
\* An optional timestamp that was never assigned.
NoTime == -1

SeqRange(s) == {s[i] : i \in 1..Len(s)}

\* Map.prototype.has / get / keys().next().value on the insertion-ordered store.
MapIndex(m, id) ==
    IF \E i \in 1..Len(m) : m[i].id = id
    THEN CHOOSE i \in 1..Len(m) : m[i].id = id
    ELSE 0

MapHas(m, id) == MapIndex(m, id) # 0

\* Map.prototype.set: an existing key keeps its position and gets the new value,
\* a new key goes to the end.
MapSet(m, id, job) ==
    IF MapHas(m, id)
    THEN [m EXCEPT ![MapIndex(m, id)] = job]
    ELSE Append(m, job)

\* Map.prototype.delete
MapDelete(m, id) ==
    LET k == MapIndex(m, id) IN
    IF k = 0 THEN m
    ELSE [i \in 1..(Len(m) - 1) |-> IF i < k THEN m[i] ELSE m[i + 1]]

\* id = `job_${Date.now()}_${Math.random().toString(36).slice(2, 8)}`: the pair
\* of the clock value and the random suffix (the format is injective in both).
JobId(t, rnd) == <<t, rnd>>

\* The steps of a new job with the first step already running.
NewStepsFirstRunning ==
    [i \in 1..Len(STEP_NAMES) |->
        [name |-> STEP_NAMES[i], status |-> IF i = 1 THEN "running" ELSE "pending",
         startedAt |-> NoTime, completedAt |-> NoTime, result |-> Undefined]]

\* The steps of a new job in the opposite order.
NewStepsReversed ==
    [i \in 1..Len(STEP_NAMES) |->
        [name |-> STEP_NAMES[Len(STEP_NAMES) + 1 - i], status |-> "pending",
         startedAt |-> NoTime, completedAt |-> NoTime, result |-> Undefined]]

NewSteps ==
    [i \in 1..Len(STEP_NAMES) |->
        [name |-> STEP_NAMES[i], status |-> "pending",
         startedAt |-> NoTime, completedAt |-> NoTime, result |-> Undefined]]

NewJob(id, shopifyProductId, t) ==
    [id |-> id, shopifyProductId |-> shopifyProductId, status |-> "queued",
     steps |-> NewSteps, createdAt |-> t, updatedAt |-> t]

\* The store after the eviction branch of createPipelineJob.
EvictOldest(m) ==
    IF Len(m) >= MAX_JOBS /\ Len(m) > 0 THEN MapDelete(m, m[1].id) ELSE m

CreatePipelineJob(shopifyProductId, rnd) ==
    /\ Len(created) < MaxCreates
    /\ LET id == JobId(now, rnd)
           job == NewJob(id, shopifyProductId, now)
           kept == EvictOldest(jobs)
           \* the history sequence `born`, kept aligned with the store
           bkept == IF Len(kept) < Len(jobs) THEN Tail(born) ELSE born
       IN /\ jobs' = MapSet(kept, id, job)
          /\ born' = IF MapHas(kept, id)
                     THEN [bkept EXCEPT ![MapIndex(kept, id)] = Len(created) + 1]
                     ELSE Append(bkept, Len(created) + 1)
          /\ evicted' = IF Len(kept) < Len(jobs) THEN Append(evicted, born[1]) ELSE evicted
          /\ created' = Append(created, id)
          /\ lastOp' = [op |-> "create", id |-> id, hit |-> TRUE]
    /\ UNCHANGED <<now, syncVars, storeVars>>

\* getPipelineJobs: Array.from(jobs.values()).reverse()
GetPipelineJobs == [i \in 1..Len(jobs) |-> jobs[Len(jobs) + 1 - i]]

\* getPipelineJob: jobs.get(id)
GetPipelineJob(id) == IF MapHas(jobs, id) THEN jobs[MapIndex(jobs, id)] ELSE Undefined

\* A variant of StartPipelineJob that also puts the steps back to their initial state.
StartPipelineJobResetsSteps(jobId) ==
    /\ IF MapHas(jobs, jobId)
       THEN jobs' = [jobs EXCEPT ![MapIndex(jobs, jobId)] =
                        [@ EXCEPT !.status = "processing", !.steps = NewSteps,
                                  !.updatedAt = now]]
       ELSE jobs' = jobs
    /\ lastOp' = [op |-> "start", id |-> jobId, hit |-> MapHas(jobs, jobId)]
    /\ UNCHANGED <<now, created, born, evicted, syncVars, storeVars>>

\* A variant of StartPipelineJob that leaves a job alone once an update has
\* derived its status as done or error.
StartPipelineJobKeepsFinished(jobId) ==
    /\ IF MapHas(jobs, jobId) /\ jobs[MapIndex(jobs, jobId)].status \notin {"done", "error"}
       THEN jobs' = [jobs EXCEPT ![MapIndex(jobs, jobId)] =
                        [@ EXCEPT !.status = "processing", !.updatedAt = now]]
       ELSE jobs' = jobs
    /\ lastOp' = [op |-> "start", id |-> jobId, hit |-> MapHas(jobs, jobId)]
    /\ UNCHANGED <<now, created, born, evicted, syncVars, storeVars>>

StartPipelineJob(jobId) ==
    /\ IF MapHas(jobs, jobId)
       THEN jobs' = [jobs EXCEPT ![MapIndex(jobs, jobId)] =
                        [@ EXCEPT !.status = "processing", !.updatedAt = now]]
       ELSE jobs' = jobs
    /\ lastOp' = [op |-> "start", id |-> jobId, hit |-> MapHas(jobs, jobId)]
    /\ UNCHANGED <<now, created, born, evicted, syncVars, storeVars>>

\* job.steps.find((s) => s.name === stepName): the index of the step, 0 if none.
FindStep(steps, stepName) ==
    IF \E i \in 1..Len(steps) : steps[i].name = stepName
    THEN CHOOSE i \in 1..Len(steps) :
            /\ steps[i].name = stepName
            /\ \A j \in 1..(i - 1) : steps[j].name # stepName
    ELSE 0

\* A variant of StepAfterUpdate that stamps startedAt only the first time.
StepAfterUpdateStampsOnce(step, status, result, t) ==
    [step EXCEPT
        !.status = status,
        !.startedAt = IF status = "running" /\ @ = NoTime THEN t ELSE @,
        !.completedAt = IF status \in {"done", "error"} THEN t ELSE @,
        !.result = IF result # Undefined THEN result ELSE @]

\* The step after the assignments of lines 519-528.
StepAfterUpdate(step, status, result, t) ==
    [step EXCEPT
        !.status = status,
        !.startedAt = IF status = "running" THEN t ELSE @,
        !.completedAt = IF status \in {"done", "error"} THEN t ELSE @,
        !.result = IF result # Undefined THEN result ELSE @]

\* A variant of DeriveStatus that reports error only once no step is left to run.
DeriveStatusErrorLast(steps) ==
    LET allDone == \A i \in 1..Len(steps) : steps[i].status = "done"
        anyError == \E i \in 1..Len(steps) : steps[i].status = "error"
        anyOpen == \E i \in 1..Len(steps) : steps[i].status \in {"pending", "running"}
    IN IF allDone THEN "done"
       ELSE IF anyError /\ ~anyOpen THEN "error" ELSE "processing"

\* A variant of DeriveStatus that takes the job for done as soon as one step
\* is done.
DeriveStatusAnyStepDone(steps) ==
    LET anyDone == \E i \in 1..Len(steps) : steps[i].status = "done"
        anyError == \E i \in 1..Len(steps) : steps[i].status = "error"
    IN IF anyDone THEN "done" ELSE IF anyError THEN "error" ELSE "processing"

\* Lines 530-540: derive the job status from the steps.
DeriveStatus(steps) ==
    LET allDone == \A i \in 1..Len(steps) : steps[i].status = "done"
        anyError == \E i \in 1..Len(steps) : steps[i].status = "error"
    IN IF allDone THEN "done" ELSE IF anyError THEN "error" ELSE "processing"

\* A variant of JobAfterUpdate that stamps updatedAt also when the step is not found.
JobAfterUpdateStamps(job, stepName, status, result, t) ==
    LET k == FindStep(job.steps, stepName) IN
    IF k = 0 THEN [job EXCEPT !.updatedAt = t]
    ELSE LET steps == [job.steps EXCEPT ![k] = StepAfterUpdate(@, status, result, t)]
         IN [job EXCEPT !.steps = steps, !.status = DeriveStatus(steps), !.updatedAt = t]

\* A variant of JobAfterUpdate that derives the job status from the steps as
\* they were before the mutation.
JobAfterUpdateStaleStatus(job, stepName, status, result, t) ==
    LET k == FindStep(job.steps, stepName) IN
    IF k = 0 THEN job
    ELSE LET steps == [job.steps EXCEPT ![k] = StepAfterUpdate(@, status, result, t)]
         IN [job EXCEPT !.steps = steps, !.status = DeriveStatus(job.steps), !.updatedAt = t]

\* A variant of JobAfterUpdate that gives the status to the named step and to
\* every step after it.
JobAfterUpdateFromStep(job, stepName, status, result, t) ==
    LET k == FindStep(job.steps, stepName) IN
    IF k = 0 THEN job
    ELSE LET steps == [i \in 1..Len(job.steps) |->
                         IF i >= k THEN StepAfterUpdate(job.steps[i], status, result, t)
                         ELSE job.steps[i]]
         IN [job EXCEPT !.steps = steps, !.status = DeriveStatus(steps), !.updatedAt = t]

JobAfterUpdate(job, stepName, status, result, t) ==
    LET k == FindStep(job.steps, stepName) IN
    IF k = 0 THEN job
    ELSE LET steps == [job.steps EXCEPT ![k] = StepAfterUpdate(@, status, result, t)]
         IN [job EXCEPT !.steps = steps, !.status = DeriveStatus(steps), !.updatedAt = t]

UpdatePipelineStep(jobId, stepName, status, result) ==
    /\ IF MapHas(jobs, jobId)
       THEN jobs' = [jobs EXCEPT ![MapIndex(jobs, jobId)] =
                        JobAfterUpdate(@, stepName, status, result, now)]
       ELSE jobs' = jobs
    /\ lastOp' = [op |-> "update", id |-> jobId,
                  hit |-> MapHas(jobs, jobId)
                          /\ FindStep(jobs[MapIndex(jobs, jobId)].steps, stepName) # 0]
    /\ UNCHANGED <<now, created, born, evicted, syncVars, storeVars>>

\* The clock advances.
Tick ==
    /\ now < MaxClock
    /\ now' = now + 1
    /\ UNCHANGED <<jobs, created, born, evicted, lastOp, syncVars, storeVars>>

----------------------------------------------------------------------------
(* The sync command: runSync and watch mode *)

\* The four step functions in the order runSync calls them.
SYNC_STEPS == <<"syncOrders", "syncPrices", "syncInventory", "syncFulfillments">>

Null == "null"
\* What the token provider can resolve to: a token, the empty string, or null.
TokenValues == {"tok", "", Null}
\* The same for the Shopify token provider, with a token of its own.
ShopifyTokenValues == {"shop", "", Null}

\* JavaScript truthiness of a string-or-null value (`!token`).
Falsy(v) == v \in {Null, Undefined, ""}

Digits == <<"0", "1", "2", "3", "4", "5", "6", "7", "8", "9">>

\* The value of a digit in a radix up to 16, -1 for any other character.
RadixDigit(c, radix) ==
    LET lower == <<"0", "1", "2", "3", "4", "5", "6", "7", "8", "9", "a", "b", "c", "d", "e", "f">>
        upper == <<"0", "1", "2", "3", "4", "5", "6", "7", "8", "9", "A", "B", "C", "D", "E", "F">>
    IN  IF \E d \in 1..radix : lower[d] = c \/ upper[d] = c
        THEN (CHOOSE d \in 1..radix : lower[d] = c \/ upper[d] = c) - 1
        ELSE -1

\* The white space parseInt, Number and trim skip: TAB, LF, VT (U+000B), FF,
\* CR, SP and NBSP (U+00A0).  The white space above U+00FF (U+1680, U+2000 to
\* U+200A, U+2028, U+2029, U+202F, U+205F, U+3000, U+FEFF) cannot be written
\* in a string of this module, and the texts of the model do not hold it.
WhiteSpace == {"\t", "\n", "", "\f", "\r", " ", " "}
RECURSIVE SkipWhiteSpace(_)
SkipWhiteSpace(s) == IF s # <<>> /\ Head(s) \in WhiteSpace THEN SkipWhiteSpace(Tail(s)) ELSE s

\* The leading run of digits of a radix, and the value of a run of digits.
RECURSIVE LeadingDigitsIn(_, _)
LeadingDigitsIn(s, radix) ==
    IF s = <<>> \/ RadixDigit(Head(s), radix) < 0 THEN <<>>
    ELSE <<Head(s)>> \o LeadingDigitsIn(Tail(s), radix)

RECURSIVE DigitsValueIn(_, _)
DigitsValueIn(s, radix) ==
    IF s = <<>> THEN 0
    ELSE radix * DigitsValueIn(SubSeq(s, 1, Len(s) - 1), radix) + RadixDigit(s[Len(s)], radix)
DigitsValue(s) == DigitsValueIn(s, 10)

\* parseInt on a string given as its sequence of characters: leading white
\* space is skipped, a sign is read, the prefix 0x or 0X makes the radix 16,
\* and the value is that of the leading run of digits; NaN when there is none.
\* negZero tells -0 from 0 (both are val 0).
ParseInt(s) ==
    LET t == SkipWhiteSpace(s)
        signed == t # <<>> /\ Head(t) \in {"+", "-"}
        negative == signed /\ Head(t) = "-"
        u == IF signed THEN Tail(t) ELSE t
        hex == Len(u) >= 2 /\ u[1] = "0" /\ u[2] \in {"x", "X"}
        radix == IF hex THEN 16 ELSE 10
        d == LeadingDigitsIn(IF hex THEN SubSeq(u, 3, Len(u)) ELSE u, radix)
        value == DigitsValueIn(d, radix)
    IN  IF d = <<>> THEN [nan |-> TRUE, val |-> 0, negZero |-> FALSE]
        ELSE [nan |-> FALSE, val |-> IF negative THEN 0 - value ELSE value,
              negZero |-> negative /\ value = 0]

\* const intervalMin = parseInt(opts.watch) || 15
IntervalMin(w) ==
    LET n == ParseInt(w) IN IF n.nan \/ n.val = 0 THEN 15 ELSE n.val

\* The values of --watch the model starts the command with, as character
\* sequences; <<>> is the option not given (or given as the empty string).
WatchInputs == {<<>>, <<"5">>, <<"0">>, <<"x">>, <<"-", "5">>, <<"", "7">>}

\* `if (opts.watch)`: a string is truthy unless it is empty or missing.
WatchGiven(w) == Len(w) > 0

IdleRun ==
    [pc |-> "idle", byTimer |-> FALSE, ebayToken |-> Undefined, shopifyToken |-> Undefined,
     invoked |-> <<>>, calls |-> <<>>, inflight |-> {}, settled |-> <<>>, reports |-> <<>>]

\* runSync() is called: it runs up to `await getValidEbayToken()`.
NewRun(byTimer) == [IdleRun EXCEPT !.pc = "awaitEbay", !.byTimer = byTimer]

Settled(run) == run.pc \in {"done", "refused", "rejected"}
InProgress(run) == run.pc \in {"awaitEbay", "awaitShopify", "awaitStep"}

\* The options object the k-th step function is called with (lines 170-173,
\* 184-186, 197-199, 210-212): only syncOrders is given the date, as createdAfter.
StepOptions(k) ==
    IF k = 1 THEN [createdAfter |-> opts.since, dryRun |-> opts.dryRun]
    ELSE [dryRun |-> opts.dryRun]

\* The arguments of the call of the step function `name`, the k-th call of a run.
StepCall(run, name, k) ==
    [fn |-> name, args |-> <<run.ebayToken, run.shopifyToken, StepOptions(k)>>]

\* The step order of the two-step command plus the new steps appended: a variant
\* of InvokeStep that calls inventory before prices.
InvokeStepInventoryFirst(run, k) ==
    LET order == <<"syncOrders", "syncInventory", "syncPrices", "syncFulfillments">> IN
    [run EXCEPT !.invoked = Append(@, order[k]),
                !.calls = Append(@, StepCall(run, order[k], k)),
                !.inflight = @ \cup {order[k]},
                !.pc = "awaitStep"]

\* The run after calling the k-th step function (the call of lines 169, 183, 196, 209).
InvokeStep(run, k) ==
    [run EXCEPT !.invoked = Append(@, SYNC_STEPS[k]),
                !.calls = Append(@, StepCall(run, SYNC_STEPS[k], k)),
                !.inflight = @ \cup {SYNC_STEPS[k]},
                !.pc = "awaitStep"]

\* A variant of AfterTokens that checks the eBay token only.
AfterTokensEbayOnly(run) ==
    IF Falsy(run.ebayToken)
    THEN [run EXCEPT !.reports = Append(@, [kind |-> "error", step |-> "",
                                            text |-> "eBay not connected"]),
                     !.pc = "refused"]
    ELSE [run EXCEPT !.invoked = Append(@, SYNC_STEPS[1]),
                     !.calls = Append(@, StepCall(run, SYNC_STEPS[1], 1)),
                     !.inflight = @ \cup {SYNC_STEPS[1]},
                     !.pc = "awaitStep"]

\* Lines 151-160: the token precondition, then the first step.
AfterTokens(run) ==
    IF Falsy(run.shopifyToken)
    THEN [run EXCEPT !.reports = Append(@, [kind |-> "error", step |-> "", text |-> "Shopify not connected"]),
                     !.pc = "refused"]
    ELSE IF Falsy(run.ebayToken)
    THEN [run EXCEPT !.reports = Append(@, [kind |-> "error", step |-> "", text |-> "eBay not connected"]),
                     !.pc = "refused"]
    ELSE InvokeStep(run, 1)

\* `await getValidEbayToken()` settles.
EbayTokenSettles(r, outcome) ==
    /\ procAlive
    /\ runs[r].pc = "awaitEbay"
    /\ runs' = [runs EXCEPT ![r] =
                  IF outcome = "throw" THEN [@ EXCEPT !.pc = "rejected"]
                  ELSE [@ EXCEPT !.ebayToken = outcome, !.pc = "awaitShopify"]]
    /\ UNCHANGED <<procAlive, exitCode, mainPc, armed, opts, pipelineVars, storeVars>>

\* `await getValidShopifyToken()` settles; the run goes on to the token checks.
ShopifyTokenSettles(r, outcome) ==
    /\ procAlive
    /\ runs[r].pc = "awaitShopify"
    /\ LET got == [runs[r] EXCEPT !.shopifyToken = outcome]
           next == IF outcome = "throw" THEN [runs[r] EXCEPT !.pc = "rejected"]
                   ELSE AfterTokens(got)
       IN /\ runs' = [runs EXCEPT ![r] = next]
          /\ exitCode' = IF next.pc = "refused" THEN 1 ELSE exitCode
    /\ UNCHANGED <<procAlive, mainPc, armed, opts, pipelineVars, storeVars>>

\* What a step function can do: return its counts ("ok") or throw an error
\* with one of these messages.
ErrorMessages == {"boom"}
StepOutcomes == {"ok"} \cup ErrorMessages

\* The try/catch around a step: spinner.succeed with the counts, or
\* spinner.fail with the message of what was thrown.
StepReport(name, outcome) ==
    IF outcome \in ErrorMessages
    THEN [kind |-> "fail", step |-> name, text |-> outcome]
    ELSE [kind |-> "succeed", step |-> name, text |-> "counts"]

\* A variant of AfterStep without the try/catch: a throw rejects the run.
AfterStepNoCatch(run, outcome) ==
    LET k == Len(run.invoked)
        name == SYNC_STEPS[k]
        reported == [run EXCEPT !.settled = Append(@, outcome),
                                !.inflight = @ \ {name},
                                !.reports = Append(@, StepReport(name, outcome))]
    IN IF outcome \in ErrorMessages
       THEN [run EXCEPT !.settled = Append(@, outcome), !.inflight = @ \ {name},
                        !.pc = "rejected"]
       ELSE IF k < Len(SYNC_STEPS) THEN InvokeStep(reported, k + 1)
       ELSE [reported EXCEPT
                !.reports = Append(@, [kind |-> "complete", step |-> "", text |-> "Sync complete."]),
                !.pc = "done"]

\* A variant of AfterStep that prints the completion marker only when the last
\* step succeeded.
AfterStepMarkerOnSuccess(run, outcome) ==
    LET k == Len(run.invoked)
        name == SYNC_STEPS[k]
        reported == [run EXCEPT !.settled = Append(@, outcome),
                                !.inflight = @ \ {name},
                                !.reports = Append(@, StepReport(name, outcome))]
    IN IF k < Len(SYNC_STEPS) THEN InvokeStep(reported, k + 1)
       ELSE IF outcome \in ErrorMessages THEN [reported EXCEPT !.pc = "done"]
       ELSE [reported EXCEPT
                !.reports = Append(@, [kind |-> "complete", step |-> "", text |-> "Sync complete."]),
                !.pc = "done"]

\* The run after its pending step function returned or threw.
AfterStep(run, outcome) ==
    LET k == Len(run.invoked)
        name == SYNC_STEPS[k]
        reported == [run EXCEPT !.settled = Append(@, outcome),
                                !.inflight = @ \ {name},
                                !.reports = Append(@, StepReport(name, outcome))]
    IN IF k < Len(SYNC_STEPS) THEN InvokeStep(reported, k + 1)
       ELSE [reported EXCEPT
                !.reports = Append(@, [kind |-> "complete", step |-> "", text |-> "Sync complete."]),
                !.pc = "done"]

StepSettles(r, outcome) ==
    /\ procAlive
    /\ runs[r].pc = "awaitStep"
    /\ runs' = [runs EXCEPT ![r] = AfterStep(@, outcome)]
    /\ UNCHANGED <<procAlive, exitCode, mainPc, armed, opts, pipelineVars, storeVars>>

\* Lines 223-232 and 241-244: `await runSync()` settles in the command's action.
MainResumes ==
    /\ procAlive
    /\ mainPc = "awaitFirstRun"
    /\ Settled(runs[1])
    /\ IF runs[1].pc = "rejected"
       THEN /\ mainPc' = "rejected"
            /\ procAlive' = FALSE
            /\ exitCode' = 1
            /\ armed' = armed
       ELSE IF WatchGiven(opts.watch)
       THEN /\ mainPc' = "awaitForever"
            /\ armed' = IntervalMin(opts.watch) * 60 * 1000
            /\ UNCHANGED <<procAlive, exitCode>>
       ELSE /\ mainPc' = "returned"
            /\ UNCHANGED <<procAlive, exitCode, armed>>
    /\ UNCHANGED <<runs, opts, pipelineVars, storeVars>>

\* The action returned and nothing keeps the event loop alive: node exits.
ProcessEnds ==
    /\ procAlive
    /\ mainPc = "returned"
    /\ procAlive' = FALSE
    /\ UNCHANGED <<exitCode, mainPc, armed, runs, opts, pipelineVars, storeVars>>

FreeSlots == {r \in DOMAIN runs : ~InProgress(runs[r])}

\* The interval timer fires and calls runSync.
TimerFire ==
    /\ procAlive
    /\ armed # 0
    /\ FreeSlots # {}
    /\ LET r == CHOOSE x \in FreeSlots : \A y \in FreeSlots : x <= y
       IN runs' = [runs EXCEPT ![r] = NewRun(TRUE)]
    /\ UNCHANGED <<procAlive, exitCode, mainPc, armed, opts, pipelineVars, storeVars>>

\* A timer-driven runSync rejected and nobody handles the promise: node's
\* default mode ends the process, the warn mode only prints.
UnhandledRejection(r) ==
    /\ procAlive
    /\ runs[r].pc = "rejected"
    /\ runs[r].byTimer
    /\ procAlive' = FALSE
    /\ exitCode' = 1
    /\ UNCHANGED <<mainPc, armed, runs, opts, pipelineVars, storeVars>>

----------------------------------------------------------------------------
(* JavaScript values met by the attribute-mapping service *)

\* A value is a record of one shape: t is its type, s the characters of a
\* string, n the value of a number, items the elements of an array and fields
\* the own properties of an object (a function from key to value).  A string
\* is the sequence of its characters, so that includes, split, toLowerCase
\* and Number work on the text itself.
JsValue(t, s, n, items, fields) == [t |-> t, s |-> s, n |-> n, items |-> items, fields |-> fields]
JsUndefined == JsValue("undefined", <<>>, 0, <<>>, <<>>)
JsNull == JsValue("null", <<>>, 0, <<>>, <<>>)
JsNaN == JsValue("NaN", <<>>, 0, <<>>, <<>>)
JsString(s) == JsValue("string", s, 0, <<>>, <<>>)
\* A number is an integer n below 10^9 in size, with s empty, or any other
\* number as its decimal digits s (after "-" when negative, with no zero at
\* either end) times ten to the power n: 1.5 is the digits 15 with n = -1.
\* Minus zero is the digits "-0".
JsNumber(n) == JsValue("number", <<>>, n, <<>>, <<>>)
JsDecimal(digits, e) == JsValue("number", digits, e, <<>>, <<>>)
JsInfinity(negative) == JsValue("Infinity", IF negative THEN <<"-">> ELSE <<>>, 0, <<>>, <<>>)
\* A boolean: n is 1 for true and 0 for false.
JsBoolean(b) == JsValue("boolean", <<>>, IF b THEN 1 ELSE 0, <<>>, <<>>)
JsArray(items) == JsValue("array", <<>>, 0, items, <<>>)
JsObject(fields) == JsValue("object", <<>>, 0, <<>>, fields)
\* The outcome of a call that throws: an async function's promise rejects with
\* a TypeError.
TypeError == JsValue("TypeError", <<>>, 0, <<>>, <<>>)
\* The errors of the database driver: a RangeError for a wrong number of bound
\* values, a SqliteError for a statement the database rejects.
RangeError == JsValue("RangeError", <<>>, 0, <<>>, <<>>)
SqliteError == JsValue("SqliteError", <<>>, 0, <<>>, <<>>)

Nullish(v) == v.t \in {"undefined", "null"}
Threw(v) == v.t \in {"TypeError", "RangeError", "SqliteError"}

\* Truthiness: undefined, null, NaN, 0, -0, false and "" are falsy, everything
\* else (arrays and objects included) is truthy.
Truthy(v) ==
    CASE v.t \in {"undefined", "null", "NaN"} -> FALSE
      [] v.t = "string" -> v.s # <<>>
      [] v.t = "number" -> IF v.s = <<>> THEN v.n # 0 ELSE v.s # <<"-", "0">>
      [] v.t = "boolean" -> v.n = 1
      [] OTHER -> TRUE

\* a || b
Or(a, b) == IF Truthy(a) THEN a ELSE b

\* A function object: s is its name, n its length (the number of declared
\* parameters).  A prototype object: s is the name of its constructor.
JsFunction(name, length) == JsValue("function", name, length, <<>>, <<>>)
JsPrototype(name) == JsValue("prototype", name, 0, <<>>, <<>>)

\* The texts and property names of the source, as sequences of characters.
Str == [new |-> <<"n", "e", "w">>,
        like_new |-> <<"l", "i", "k", "e", " ", "n", "e", "w">>,
        used |-> <<"u", "s", "e", "d">>,
        good |-> <<"g", "o", "o", "d">>,
        for_parts |-> <<"f", "o", "r", " ", "p", "a", "r", "t", "s">>,
        Infinity |-> <<"I", "n", "f", "i", "n", "i", "t", "y">>,
        UntitledProduct |-> <<"U", "n", "t", "i", "t", "l", "e", "d", " ",
                              "P", "r", "o", "d", "u", "c", "t">>,
        NoDescription |-> <<"N", "o", " ", "d", "e", "s", "c", "r", "i", "p", "t", "i", "o", "n",
                            " ", "a", "v", "a", "i", "l", "a", "b", "l", "e">>]
Key == [length |-> <<"l", "e", "n", "g", "t", "h">>,
        constructor |-> <<"c", "o", "n", "s", "t", "r", "u", "c", "t", "o", "r">>,
        proto |-> <<"_", "_", "p", "r", "o", "t", "o", "_", "_">>,
        prototype |-> <<"p", "r", "o", "t", "o", "t", "y", "p", "e">>,
        name |-> <<"n", "a", "m", "e">>,
        caller |-> <<"c", "a", "l", "l", "e", "r">>,
        arguments |-> <<"a", "r", "g", "u", "m", "e", "n", "t", "s">>,
        toString |-> <<"t", "o", "S", "t", "r", "i", "n", "g">>,
        toLowerCase |-> <<"t", "o", "L", "o", "w", "e", "r", "C", "a", "s", "e">>,
        title |-> <<"t", "i", "t", "l", "e">>,
        body_html |-> <<"b", "o", "d", "y", "_", "h", "t", "m", "l">>,
        id |-> <<"i", "d">>,
        variants |-> <<"v", "a", "r", "i", "a", "n", "t", "s">>,
        barcode |-> <<"b", "a", "r", "c", "o", "d", "e">>]
Name == [Object |-> <<"O", "b", "j", "e", "c", "t">>,
         String |-> <<"S", "t", "r", "i", "n", "g">>,
         Array |-> <<"A", "r", "r", "a", "y">>,
         Number |-> <<"N", "u", "m", "b", "e", "r">>,
         Boolean |-> <<"B", "o", "o", "l", "e", "a", "n">>,
         Function |-> <<"F", "u", "n", "c", "t", "i", "o", "n">>]

\* The constructor a value is an instance of, by its type.
ConstructorName(v) ==
    CASE v.t = "string" -> Name.String
      [] v.t = "array" -> Name.Array
      [] v.t \in {"number", "NaN", "Infinity"} -> Name.Number
      [] v.t = "boolean" -> Name.Boolean
      [] v.t = "function" -> Name.Function
      [] OTHER -> Name.Object

\* The methods of the built-in prototypes, each with its length, as Node.js 22
\* has them.  trimLeft and trimRight are the functions trimStart and trimEnd
\* under a second key.
MethodsOf(name) ==
    CASE name = Name.String ->
            {<<<<"a", "n", "c", "h", "o", "r">>, 1>>, <<<<"a", "t">>, 1>>, <<<<"b", "i", "g">>, 0>>,
             <<<<"b", "l", "i", "n", "k">>, 0>>, <<<<"b", "o", "l", "d">>, 0>>,
             <<<<"c", "h", "a", "r", "A", "t">>, 1>>,
             <<<<"c", "h", "a", "r", "C", "o", "d", "e", "A", "t">>, 1>>,
             <<<<"c", "o", "d", "e", "P", "o", "i", "n", "t", "A", "t">>, 1>>,
             <<<<"c", "o", "n", "c", "a", "t">>, 1>>, <<<<"e", "n", "d", "s", "W", "i", "t", "h">>, 1>>,
             <<<<"f", "o", "n", "t", "c", "o", "l", "o", "r">>, 1>>,
             <<<<"f", "o", "n", "t", "s", "i", "z", "e">>, 1>>, <<<<"f", "i", "x", "e", "d">>, 0>>,
             <<<<"i", "n", "c", "l", "u", "d", "e", "s">>, 1>>,
             <<<<"i", "n", "d", "e", "x", "O", "f">>, 1>>,
             <<<<"i", "s", "W", "e", "l", "l", "F", "o", "r", "m", "e", "d">>, 0>>,
             <<<<"i", "t", "a", "l", "i", "c", "s">>, 0>>,
             <<<<"l", "a", "s", "t", "I", "n", "d", "e", "x", "O", "f">>, 1>>,
             <<<<"l", "i", "n", "k">>, 1>>,
             <<<<"l", "o", "c", "a", "l", "e", "C", "o", "m", "p", "a", "r", "e">>, 1>>,
             <<<<"m", "a", "t", "c", "h">>, 1>>, <<<<"m", "a", "t", "c", "h", "A", "l", "l">>, 1>>,
             <<<<"n", "o", "r", "m", "a", "l", "i", "z", "e">>, 0>>,
             <<<<"p", "a", "d", "E", "n", "d">>, 1>>, <<<<"p", "a", "d", "S", "t", "a", "r", "t">>, 1>>,
             <<<<"r", "e", "p", "e", "a", "t">>, 1>>, <<<<"r", "e", "p", "l", "a", "c", "e">>, 2>>,
             <<<<"r", "e", "p", "l", "a", "c", "e", "A", "l", "l">>, 2>>,
             <<<<"s", "e", "a", "r", "c", "h">>, 1>>, <<<<"s", "l", "i", "c", "e">>, 2>>,
             <<<<"s", "m", "a", "l", "l">>, 0>>, <<<<"s", "p", "l", "i", "t">>, 2>>,
             <<<<"s", "t", "r", "i", "k", "e">>, 0>>, <<<<"s", "u", "b">>, 0>>,
             <<<<"s", "u", "b", "s", "t", "r">>, 2>>,
             <<<<"s", "u", "b", "s", "t", "r", "i", "n", "g">>, 2>>, <<<<"s", "u", "p">>, 0>>,
             <<<<"s", "t", "a", "r", "t", "s", "W", "i", "t", "h">>, 1>>,
             <<<<"t", "o", "S", "t", "r", "i", "n", "g">>, 0>>,
             <<<<"t", "o", "W", "e", "l", "l", "F", "o", "r", "m", "e", "d">>, 0>>,
             <<<<"t", "r", "i", "m">>, 0>>, <<<<"t", "r", "i", "m", "S", "t", "a", "r", "t">>, 0>>,
             <<<<"t", "r", "i", "m", "E", "n", "d">>, 0>>,
             <<<<"t", "o", "L", "o", "c", "a", "l", "e", "L", "o", "w", "e", "r", "C", "a", "s", "e">>, 0>>,
             <<<<"t", "o", "L", "o", "c", "a", "l", "e", "U", "p", "p", "e", "r", "C", "a", "s", "e">>, 0>>,
             <<<<"t", "o", "L", "o", "w", "e", "r", "C", "a", "s", "e">>, 0>>,
             <<<<"t", "o", "U", "p", "p", "e", "r", "C", "a", "s", "e">>, 0>>,
             <<<<"v", "a", "l", "u", "e", "O", "f">>, 0>>}
      [] name = Name.Array ->
            {<<<<"a", "t">>, 1>>, <<<<"c", "o", "n", "c", "a", "t">>, 1>>,
             <<<<"c", "o", "p", "y", "W", "i", "t", "h", "i", "n">>, 2>>, <<<<"f", "i", "l", "l">>, 1>>,
             <<<<"f", "i", "n", "d">>, 1>>, <<<<"f", "i", "n", "d", "I", "n", "d", "e", "x">>, 1>>,
             <<<<"f", "i", "n", "d", "L", "a", "s", "t">>, 1>>,
             <<<<"f", "i", "n", "d", "L", "a", "s", "t", "I", "n", "d", "e", "x">>, 1>>,
             <<<<"l", "a", "s", "t", "I", "n", "d", "e", "x", "O", "f">>, 1>>, <<<<"p", "o", "p">>, 0>>,
             <<<<"p", "u", "s", "h">>, 1>>, <<<<"r", "e", "v", "e", "r", "s", "e">>, 0>>,
             <<<<"s", "h", "i", "f", "t">>, 0>>, <<<<"u", "n", "s", "h", "i", "f", "t">>, 1>>,
             <<<<"s", "l", "i", "c", "e">>, 2>>, <<<<"s", "o", "r", "t">>, 1>>,
             <<<<"s", "p", "l", "i", "c", "e">>, 2>>, <<<<"i", "n", "c", "l", "u", "d", "e", "s">>, 1>>,
             <<<<"i", "n", "d", "e", "x", "O", "f">>, 1>>, <<<<"j", "o", "i", "n">>, 1>>,
             <<<<"k", "e", "y", "s">>, 0>>, <<<<"e", "n", "t", "r", "i", "e", "s">>, 0>>,
             <<<<"v", "a", "l", "u", "e", "s">>, 0>>, <<<<"f", "o", "r", "E", "a", "c", "h">>, 1>>,
             <<<<"f", "i", "l", "t", "e", "r">>, 1>>, <<<<"f", "l", "a", "t">>, 0>>,
             <<<<"f", "l", "a", "t", "M", "a", "p">>, 1>>, <<<<"m", "a", "p">>, 1>>,
             <<<<"e", "v", "e", "r", "y">>, 1>>, <<<<"s", "o", "m", "e">>, 1>>,
             <<<<"r", "e", "d", "u", "c", "e">>, 1>>,
             <<<<"r", "e", "d", "u", "c", "e", "R", "i", "g", "h", "t">>, 1>>,
             <<<<"t", "o", "L", "o", "c", "a", "l", "e", "S", "t", "r", "i", "n", "g">>, 0>>,
             <<<<"t", "o", "S", "t", "r", "i", "n", "g">>, 0>>,
             <<<<"t", "o", "R", "e", "v", "e", "r", "s", "e", "d">>, 0>>,
             <<<<"t", "o", "S", "o", "r", "t", "e", "d">>, 1>>,
             <<<<"t", "o", "S", "p", "l", "i", "c", "e", "d">>, 2>>, <<<<"w", "i", "t", "h">>, 2>>}
      [] name = Name.Number ->
            {<<<<"t", "o", "E", "x", "p", "o", "n", "e", "n", "t", "i", "a", "l">>, 1>>,
             <<<<"t", "o", "F", "i", "x", "e", "d">>, 1>>,
             <<<<"t", "o", "P", "r", "e", "c", "i", "s", "i", "o", "n">>, 1>>,
             <<<<"t", "o", "S", "t", "r", "i", "n", "g">>, 1>>,
             <<<<"v", "a", "l", "u", "e", "O", "f">>, 0>>,
             <<<<"t", "o", "L", "o", "c", "a", "l", "e", "S", "t", "r", "i", "n", "g">>, 0>>}
      [] name = Name.Boolean ->
            {<<<<"t", "o", "S", "t", "r", "i", "n", "g">>, 0>>,
             <<<<"v", "a", "l", "u", "e", "O", "f">>, 0>>}
      [] name = Name.Function ->
            {<<<<"a", "p", "p", "l", "y">>, 2>>, <<<<"b", "i", "n", "d">>, 1>>,
             <<<<"c", "a", "l", "l">>, 1>>, <<<<"t", "o", "S", "t", "r", "i", "n", "g">>, 0>>}
      [] OTHER ->
            {<<<<"_", "_", "d", "e", "f", "i", "n", "e", "G", "e", "t", "t", "e", "r", "_", "_">>, 2>>,
             <<<<"_", "_", "d", "e", "f", "i", "n", "e", "S", "e", "t", "t", "e", "r", "_", "_">>, 2>>,
             <<<<"h", "a", "s", "O", "w", "n", "P", "r", "o", "p", "e", "r", "t", "y">>, 1>>,
             <<<<"_", "_", "l", "o", "o", "k", "u", "p", "G", "e", "t", "t", "e", "r", "_", "_">>, 1>>,
             <<<<"_", "_", "l", "o", "o", "k", "u", "p", "S", "e", "t", "t", "e", "r", "_", "_">>, 1>>,
             <<<<"i", "s", "P", "r", "o", "t", "o", "t", "y", "p", "e", "O", "f">>, 1>>,
             <<<<"p", "r", "o", "p", "e", "r", "t", "y", "I", "s", "E", "n", "u", "m", "e", "r", "a", "b", "l", "e">>, 1>>,
             <<<<"t", "o", "S", "t", "r", "i", "n", "g">>, 0>>,
             <<<<"v", "a", "l", "u", "e", "O", "f">>, 0>>,
             <<<<"t", "o", "L", "o", "c", "a", "l", "e", "S", "t", "r", "i", "n", "g">>, 0>>}

\* The static methods of the built-in constructors, each with its length, as
\* Node.js 22 has them.
StaticMethods(name) ==
    CASE name = Name.Object ->
            {<<<<"a", "s", "s", "i", "g", "n">>, 2>>,
             <<<<"g", "e", "t", "O", "w", "n", "P", "r", "o", "p", "e", "r", "t", "y", "D", "e", "s", "c", "r", "i", "p", "t", "o", "r">>, 2>>,
             <<<<"g", "e", "t", "O", "w", "n", "P", "r", "o", "p", "e", "r", "t", "y", "D", "e", "s", "c", "r", "i", "p", "t", "o", "r", "s">>, 1>>,
             <<<<"g", "e", "t", "O", "w", "n", "P", "r", "o", "p", "e", "r", "t", "y", "N", "a", "m", "e", "s">>, 1>>,
             <<<<"g", "e", "t", "O", "w", "n", "P", "r", "o", "p", "e", "r", "t", "y", "S", "y", "m", "b", "o", "l", "s">>, 1>>,
             <<<<"h", "a", "s", "O", "w", "n">>, 2>>, <<<<"i", "s">>, 2>>,
             <<<<"p", "r", "e", "v", "e", "n", "t", "E", "x", "t", "e", "n", "s", "i", "o", "n", "s">>, 1>>,
             <<<<"s", "e", "a", "l">>, 1>>, <<<<"c", "r", "e", "a", "t", "e">>, 2>>,
             <<<<"d", "e", "f", "i", "n", "e", "P", "r", "o", "p", "e", "r", "t", "i", "e", "s">>, 2>>,
             <<<<"d", "e", "f", "i", "n", "e", "P", "r", "o", "p", "e", "r", "t", "y">>, 3>>,
             <<<<"f", "r", "e", "e", "z", "e">>, 1>>,
             <<<<"g", "e", "t", "P", "r", "o", "t", "o", "t", "y", "p", "e", "O", "f">>, 1>>,
             <<<<"s", "e", "t", "P", "r", "o", "t", "o", "t", "y", "p", "e", "O", "f">>, 2>>,
             <<<<"i", "s", "E", "x", "t", "e", "n", "s", "i", "b", "l", "e">>, 1>>,
             <<<<"i", "s", "F", "r", "o", "z", "e", "n">>, 1>>,
             <<<<"i", "s", "S", "e", "a", "l", "e", "d">>, 1>>,
             <<<<"k", "e", "y", "s">>, 1>>,
             <<<<"e", "n", "t", "r", "i", "e", "s">>, 1>>,
             <<<<"f", "r", "o", "m", "E", "n", "t", "r", "i", "e", "s">>, 1>>,
             <<<<"v", "a", "l", "u", "e", "s">>, 1>>,
             <<<<"g", "r", "o", "u", "p", "B", "y">>, 2>>}
      [] name = Name.String ->
            {<<<<"f", "r", "o", "m", "C", "h", "a", "r", "C", "o", "d", "e">>, 1>>,
             <<<<"f", "r", "o", "m", "C", "o", "d", "e", "P", "o", "i", "n", "t">>, 1>>,
             <<<<"r", "a", "w">>, 1>>}
      [] name = Name.Array ->
            {<<<<"i", "s", "A", "r", "r", "a", "y">>, 1>>,
             <<<<"f", "r", "o", "m">>, 1>>,
             <<<<"f", "r", "o", "m", "A", "s", "y", "n", "c">>, 1>>,
             <<<<"o", "f">>, 0>>}
      [] name = Name.Number ->
            {<<<<"i", "s", "F", "i", "n", "i", "t", "e">>, 1>>,
             <<<<"i", "s", "I", "n", "t", "e", "g", "e", "r">>, 1>>,
             <<<<"i", "s", "N", "a", "N">>, 1>>,
             <<<<"i", "s", "S", "a", "f", "e", "I", "n", "t", "e", "g", "e", "r">>, 1>>,
             <<<<"p", "a", "r", "s", "e", "F", "l", "o", "a", "t">>, 1>>,
             <<<<"p", "a", "r", "s", "e", "I", "n", "t">>, 2>>}
      [] OTHER -> {}

\* The constants of Number.
NumberConstants ==
    {<<<<"M", "A", "X", "_", "V", "A", "L", "U", "E">>, JsDecimal(<<"1", "7", "9", "7", "6", "9", "3", "1", "3", "4", "8", "6", "2", "3", "1", "5", "7">>, 292)>>,
      <<<<"M", "I", "N", "_", "V", "A", "L", "U", "E">>, JsDecimal(<<"5">>, -324)>>,
      <<<<"E", "P", "S", "I", "L", "O", "N">>, JsDecimal(<<"2", "2", "2", "0", "4", "4", "6", "0", "4", "9", "2", "5", "0", "3", "1", "3">>, -31)>>,
      <<<<"M", "A", "X", "_", "S", "A", "F", "E", "_", "I", "N", "T", "E", "G", "E", "R">>, JsDecimal(<<"9", "0", "0", "7", "1", "9", "9", "2", "5", "4", "7", "4", "0", "9", "9", "1">>, 0)>>,
      <<<<"M", "I", "N", "_", "S", "A", "F", "E", "_", "I", "N", "T", "E", "G", "E", "R">>, JsDecimal(<<"-", "9", "0", "0", "7", "1", "9", "9", "2", "5", "4", "7", "4", "0", "9", "9", "1">>, 0)>>,
      <<<<"N", "a", "N">>, JsNaN>>,
      <<<<"P", "O", "S", "I", "T", "I", "V", "E", "_", "I", "N", "F", "I", "N", "I", "T", "Y">>, JsInfinity(FALSE)>>,
      <<<<"N", "E", "G", "A", "T", "I", "V", "E", "_", "I", "N", "F", "I", "N", "I", "T", "Y">>, JsInfinity(TRUE)>>}


\* The entry of a table of pairs under a key, or `missing` when it has none.
Find(table, key, missing) ==
    IF \E p \in table : p[1] = key THEN (CHOOSE p \in table : p[1] = key)[2] ELSE missing

\* The built-in function of the given name when `length` is a length (it is
\* -1 for no function), `otherwise` when it is not.
FunctionOr(name, length, otherwise) == IF length >= 0 THEN JsFunction(name, length) ELSE otherwise

\* The first of two properties that is not undefined.
Else(property, otherwise) == IF property # JsUndefined THEN property ELSE otherwise

\* An own property of a built-in constructor besides length, name and
\* prototype: a static method or, on Number, a constant; undefined when it has
\* none under the key.
Static(name, key) ==
    FunctionOr(key, Find(StaticMethods(name), key, -1),
               IF name = Name.Number THEN Find(NumberConstants, key, JsUndefined) ELSE JsUndefined)

\* trimLeft and trimRight name the functions trimStart and trimEnd.
Aliased(name, key) ==
    IF name # Name.String THEN key
    ELSE Find({<<<<"t", "r", "i", "m", "L", "e", "f", "t">>,
                 <<"t", "r", "i", "m", "S", "t", "a", "r", "t">>>>,
               <<<<"t", "r", "i", "m", "R", "i", "g", "h", "t">>,
                 <<"t", "r", "i", "m", "E", "n", "d">>>>}, key, key)

\* An own property of the prototype of the named constructor, undefined when
\* it has none under the key.  String.prototype is a string object for "" and
\* Array.prototype an empty array (length 0); Function.prototype is a function
\* of length 0 with the empty name, and its accessors `caller` and `arguments`
\* throw a TypeError on every built-in function.
PrototypeOwn(name, key) ==
    IF key = Key.constructor THEN JsFunction(name, 1)
    ELSE IF name = Name.Function /\ key \in {Key.caller, Key.arguments} THEN TypeError
    ELSE FunctionOr(Aliased(name, key), Find(MethodsOf(name), Aliased(name, key), -1),
                    IF key = Key.length /\ name \in {Name.String, Name.Array, Name.Function}
                    THEN JsNumber(0)
                    ELSE IF key = Key.name /\ name = Name.Function THEN JsString(<<>>)
                    ELSE JsUndefined)

\* A property found on the prototype chain that starts at the prototype of
\* the named constructor and ends at Object.prototype.  __proto__ is the
\* accessor of Object.prototype: it gives the prototype of the receiver.
Inherited(name, key, receiverProto) ==
    IF key = Key.proto THEN receiverProto
    ELSE Else(PrototypeOwn(name, key),
              IF name # Name.Object THEN PrototypeOwn(Name.Object, key) ELSE JsUndefined)

\* A canonical array index: "0", or a run of digits that does not start with 0.
IsIndex(key) ==
    /\ key # <<>>
    /\ \A i \in 1..Len(key) : \E d \in 1..10 : Digits[d] = key[i]
    /\ (Len(key) > 1 => key[1] # "0")

\* The own property of a value under a key, as a set: the property, or no
\* element when the value has none (a static of a constructor or a property of
\* a prototype object that is undefined counts as none).  The own properties
\* are a field of an object, `length` and the index keys of a string or an
\* array, `name`, `length`, `prototype` and the statics of a constructor, and
\* the properties of a prototype object.
OwnProperty(v, key) ==
    CASE v.t = "object" -> IF key \in DOMAIN v.fields THEN {v.fields[key]} ELSE {}
      [] v.t = "string" ->
            IF key = Key.length THEN {JsNumber(Len(v.s))}
            ELSE IF IsIndex(key) /\ DigitsValue(key) < Len(v.s)
            THEN {JsString(<<v.s[DigitsValue(key) + 1]>>)}
            ELSE {}
      [] v.t = "array" ->
            IF key = Key.length THEN {JsNumber(Len(v.items))}
            ELSE IF IsIndex(key) /\ DigitsValue(key) < Len(v.items)
            THEN {v.items[DigitsValue(key) + 1]}
            ELSE {}
      [] v.t = "function" ->
            IF key = Key.length THEN {JsNumber(v.n)}
            ELSE IF key = Key.name THEN {JsString(v.s)}
            ELSE IF key = Key.prototype /\ v.s \in {Name.Object, Name.String, Name.Array,
                                                     Name.Number, Name.Boolean, Name.Function}
            THEN {JsPrototype(v.s)}
            ELSE {Static(v.s, key)} \ {JsUndefined}
      [] v.t = "prototype" -> {PrototypeOwn(v.s, key)} \ {JsUndefined}
      [] OTHER -> {}

\* The element of a set of at most one property, or `otherwise` when it is empty.
OwnOr(own, otherwise) == IF own # {} THEN CHOOSE property \in own : TRUE ELSE otherwise

\* v[key] for a property name: a TypeError on undefined and null; otherwise
\* the own property, then the property inherited from the prototype chain (of
\* a prototype object: from Object.prototype, which itself has the prototype
\* null), and undefined when there is none.  The functions are the built-in
\* ones: data read from JSON holds none.
GetProperty(v, key) ==
    IF Nullish(v) THEN TypeError
    ELSE OwnOr(OwnProperty(v, key),
               IF v.t = "prototype"
               THEN Inherited(Name.Object, key,
                              IF v.s = Name.Object THEN JsNull ELSE JsPrototype(Name.Object))
               ELSE Inherited(ConstructorName(v), key, JsPrototype(ConstructorName(v))))

\* v[0]: the first element of an array, the first character of a string, the
\* property "0" of an object, undefined on a number.
GetFirst(v) ==
    CASE Nullish(v) -> TypeError
      [] v.t = "array" -> IF v.items = <<>> THEN JsUndefined ELSE v.items[1]
      [] v.t = "string" -> IF v.s = <<>> THEN JsUndefined ELSE JsString(<<v.s[1]>>)
      [] v.t = "object" -> GetProperty(v, <<"0">>)
      [] OTHER -> JsUndefined

\* String.prototype.includes and indexOf (1-based; 0 when absent).
Includes(s, m) == \E i \in 1..(Len(s) - Len(m) + 1) : SubSeq(s, i, i + Len(m) - 1) = m
IndexOf(s, m) ==
    IF Includes(s, m)
    THEN CHOOSE i \in 1..(Len(s) - Len(m) + 1) :
            /\ SubSeq(s, i, i + Len(m) - 1) = m
            /\ \A j \in 1..(i - 1) : SubSeq(s, j, j + Len(m) - 1) # m
    ELSE 0

\* String.prototype.split with a non-empty separator: every piece between
\* occurrences of the separator.
RECURSIVE Split(_, _)
Split(s, m) ==
    LET i == IndexOf(s, m) IN
    IF i = 0 THEN <<s>>
    ELSE <<SubSeq(s, 1, i - 1)>> \o Split(SubSeq(s, i + Len(m), Len(s)), m)

\* String.prototype.toLowerCase.  The strings of the model are made of
\* characters up to U+00FF; the letters with a lower-case form among them are
\* A-Z and the Latin-1 capitals U+00C0-U+00DE without the sign U+00D7, each
\* 32 places below its lower-case form.  Every other character of that range
\* stays (so do the small letters U+00B5, U+00DF and U+00FF).
UpperLetters ==
    <<"A", "B", "C", "D", "E", "F", "G", "H", "I", "J", "K", "L", "M", "N",
      "O", "P", "Q", "R", "S", "T", "U", "V", "W", "X", "Y", "Z", "À", "Á",
      "Â", "Ã", "Ä", "Å", "Æ", "Ç", "È", "É", "Ê", "Ë", "Ì", "Í", "Î", "Ï",
      "Ð", "Ñ", "Ò", "Ó", "Ô", "Õ", "Ö", "Ø", "Ù", "Ú", "Û", "Ü", "Ý", "Þ">>
ToLowerCase(s) ==
    LET lower == <<"a", "b", "c", "d", "e", "f", "g", "h", "i", "j", "k", "l", "m", "n",
                   "o", "p", "q", "r", "s", "t", "u", "v", "w", "x", "y", "z", "à", "á",
                   "â", "ã", "ä", "å", "æ", "ç", "è", "é", "ê", "ë", "ì", "í", "î", "ï",
                   "ð", "ñ", "ò", "ó", "ô", "õ", "ö", "ø", "ù", "ú", "û", "ü", "ý", "þ">>
        Lower(c) == IF \E i \in 1..Len(UpperLetters) : UpperLetters[i] = c
                    THEN lower[CHOOSE i \in 1..Len(UpperLetters) : UpperLetters[i] = c]
                    ELSE c
    IN  [i \in 1..Len(s) |-> Lower(s[i])]

\* String.prototype.trim: white space is taken off both ends.
RECURSIVE TrimEnd(_)
TrimEnd(s) ==
    IF s # <<>> /\ s[Len(s)] \in WhiteSpace THEN TrimEnd(SubSeq(s, 1, Len(s) - 1)) ELSE s
Trim(s) == TrimEnd(SkipWhiteSpace(s))

AllDigitsIn(x, radix) == x # <<>> /\ \A i \in 1..Len(x) : RadixDigit(x[i], radix) >= 0

\* The number with the given sign and decimal digits times ten to the power
\* e, in the form of JsNumber or JsDecimal.
Decimal(negative, digits, e) ==
    LET RECURSIVE NoLeadingZeros(_)
        NoLeadingZeros(d) == IF d # <<>> /\ Head(d) = "0" THEN NoLeadingZeros(Tail(d)) ELSE d
        RECURSIVE NoTrailingZeros(_)
        NoTrailingZeros(d) ==
            IF d # <<>> /\ d[Len(d)] = "0" THEN NoTrailingZeros(SubSeq(d, 1, Len(d) - 1)) ELSE d
        head == NoLeadingZeros(digits)
        significant == NoTrailingZeros(head)
        power == e + Len(head) - Len(significant)
    IN  IF significant = <<>>
        THEN (IF negative THEN JsDecimal(<<"-", "0">>, 0) ELSE JsNumber(0))
        ELSE IF power >= 0 /\ Len(significant) + power <= 9
        THEN JsNumber((IF negative THEN -1 ELSE 1) * DigitsValue(significant) * 10 ^ power)
        ELSE JsDecimal((IF negative THEN <<"-">> ELSE <<>>) \o significant, power)

\* Number(text) for a trimmed text: the empty text is 0; 0x, 0o and 0b start
\* an unsigned literal in radix 16, 8 and 2; after an optional sign, Infinity
\* is the infinity and a decimal literal (digits with at most one point, at
\* least one digit, and an optional exponent with an optional sign) is its
\* value; any other text is NaN.  The decimal literals of the model have at
\* most 15 significant digits and a size between 1e-300 and 1e300, where the
\* double that Number gives prints with the digits of the text; literals with
\* a prefix stay below 2^53, where every integer is a double.  A literal with
\* a prefix is written out in decimal, so that it is the number of the decimal
\* literal of the same value.
StringToNumber(x) ==
    LET prefixed == Len(x) >= 2 /\ x[1] = "0" /\ x[2] \in {"x", "X", "o", "O", "b", "B"}
        radix == IF ~prefixed THEN 10
                 ELSE IF x[2] \in {"x", "X"} THEN 16
                 ELSE IF x[2] \in {"o", "O"} THEN 8 ELSE 2
        signed == x # <<>> /\ Head(x) \in {"+", "-"}
        negative == signed /\ Head(x) = "-"
        u == IF signed THEN Tail(x) ELSE x
        \* the position of the first character of a set in a text, 0 when there is none
        First(t, set) ==
            IF \E i \in 1..Len(t) : t[i] \in set
            THEN CHOOSE i \in 1..Len(t) : t[i] \in set /\ \A j \in 1..(i - 1) : t[j] \notin set
            ELSE 0
        mark == First(u, {"e", "E"})
        mantissa == IF mark = 0 THEN u ELSE SubSeq(u, 1, mark - 1)
        exponent == IF mark = 0 THEN <<>> ELSE SubSeq(u, mark + 1, Len(u))
        exponentSigned == exponent # <<>> /\ Head(exponent) \in {"+", "-"}
        exponentDigits == IF exponentSigned THEN Tail(exponent) ELSE exponent
        point == First(mantissa, {"."})
        whole == IF point = 0 THEN mantissa ELSE SubSeq(mantissa, 1, point - 1)
        fraction == IF point = 0 THEN <<>> ELSE SubSeq(mantissa, point + 1, Len(mantissa))
        DigitsOnly(d) == \A i \in 1..Len(d) : RadixDigit(d[i], 10) >= 0
        power == IF mark = 0 THEN 0
                 ELSE IF exponentSigned /\ Head(exponent) = "-" THEN 0 - DigitsValue(exponentDigits)
                 ELSE DigitsValue(exponentDigits)
        \* the decimal digits of d * radix + carry, for decimal digits d
        RECURSIVE TimesRadixPlus(_, _)
        TimesRadixPlus(d, carry) ==
            IF d = <<>>
            THEN (IF carry = 0 THEN <<>>
                  ELSE TimesRadixPlus(<<>>, carry \div 10) \o <<Digits[(carry % 10) + 1]>>)
            ELSE LET v == RadixDigit(d[Len(d)], 10) * radix + carry IN
                 TimesRadixPlus(SubSeq(d, 1, Len(d) - 1), v \div 10) \o <<Digits[(v % 10) + 1]>>
        \* the decimal digits of the literal's digits t, after the digits read so far
        RECURSIVE InDecimal(_, _)
        InDecimal(t, d) ==
            IF t = <<>> THEN d
            ELSE InDecimal(Tail(t), TimesRadixPlus(d, RadixDigit(Head(t), radix)))
    IN  IF x = <<>> THEN JsNumber(0)
        ELSE IF prefixed
        THEN (IF AllDigitsIn(SubSeq(x, 3, Len(x)), radix)
              THEN Decimal(FALSE, InDecimal(SubSeq(x, 3, Len(x)), <<>>), 0) ELSE JsNaN)
        ELSE IF u = Str.Infinity THEN JsInfinity(negative)
        ELSE IF /\ DigitsOnly(whole) /\ DigitsOnly(fraction) /\ whole \o fraction # <<>>
                /\ (mark = 0 \/ AllDigitsIn(exponentDigits, 10))
        THEN Decimal(negative, whole \o fraction, power - Len(fraction))
        ELSE JsNaN

\* Number(v).  A number is itself, null is 0, undefined NaN, true 1 and false
\* 0, a string the number of its trimmed text.  An object is converted through
\* valueOf and toString: String.prototype (a String object of ""),
\* Array.prototype (an empty array) and Number.prototype (a Number object of
\* 0) give 0 and Boolean.prototype (a Boolean object of false) gives 0; an
\* array goes through its text, the elements joined by commas: the empty
\* array is 0, an array of one element is the number of that element's text
\* (null and undefined have the empty text, -0 the text "0", a boolean its
\* name, Boolean.prototype "false"), a longer array is NaN.  An object read
\* from JSON has the text "[object Object]" and is NaN, unless it has a
\* property toString of its own: that is no function, valueOf gives the object
\* itself, and the conversion throws a TypeError.  A function and the other
\* prototypes are NaN.
RECURSIVE ToNumber(_)
ToNumber(v) ==
    CASE v.t \in {"number", "NaN", "Infinity"} -> v
      [] v.t = "null" -> JsNumber(0)
      [] v.t = "boolean" -> JsNumber(v.n)
      [] v.t = "string" -> StringToNumber(Trim(v.s))
      [] v.t = "prototype" ->
            IF v.s \in {Name.String, Name.Array, Name.Number, Name.Boolean}
            THEN JsNumber(0) ELSE JsNaN
      [] v.t = "object" -> IF Key.toString \in DOMAIN v.fields THEN TypeError ELSE JsNaN
      [] v.t = "array" ->
            IF v.items = <<>> THEN JsNumber(0)
            ELSE IF Len(v.items) > 1 THEN JsNaN
            ELSE LET item == v.items[1] IN
                 CASE Nullish(item) -> JsNumber(0)
                   [] item.t = "number" ->
                         IF item = JsDecimal(<<"-", "0">>, 0) THEN JsNumber(0) ELSE item
                   [] item.t = "boolean" -> JsNaN
                   [] item.t = "prototype" ->
                         IF item.s \in {Name.String, Name.Array, Name.Number}
                         THEN JsNumber(0) ELSE JsNaN
                   [] OTHER -> ToNumber(item)
      [] OTHER -> JsNaN
IsNaN(v) == v.t = "NaN"

----------------------------------------------------------------------------
(* Attribute mappings: lookup and resolution *)

\* A row of attribute_mappings.  category, field_name and mapping_type are
\* only compared for equality and are plain strings; source_value and
\* target_value are JavaScript values (a string or null), and so is
\* is_enabled: the number 1 or 0, or whatever else an import has left there.
MappingRow(id, category, field_name, mapping_type, source_value, target_value, is_enabled, t) ==
    [id |-> id, category |-> category, field_name |-> field_name,
     mapping_type |-> mapping_type, source_value |-> source_value,
     target_value |-> target_value, variation_mapping |-> JsNull,
     is_enabled |-> is_enabled, display_order |-> 0, created_at |-> t, updated_at |-> t]

\* A variant of GetMapping whose query has no `AND is_enabled = 1`.
GetMappingIgnoresEnabled(category, fieldName) ==
    LET rows == SelectSeq(mappings, LAMBDA m :
                    m.category = category /\ m.field_name = fieldName)
    IN  IF rows = <<>> THEN <<>> ELSE <<rows[1]>>

\* getMapping: the first enabled row of the pair, as a sequence of at most one
\* row (<<>> is the missing row, which `!mapping` takes for null).
GetMapping(category, fieldName) ==
    LET rows == SelectSeq(mappings, LAMBDA m :
                    m.category = category /\ m.field_name = fieldName
                    /\ m.is_enabled = JsNumber(1))
    IN  IF rows = <<>> THEN <<>> ELSE <<rows[1]>>

\* The marker of a nested path.
Marker == <<"[", "0", "]", ".">>

\* shopifyProduct[baseField]?.[0]?.[nestedField]
NestedField(shopifyProduct, baseField, nestedField) ==
    LET base == GetProperty(shopifyProduct, baseField) IN
    IF Threw(base) THEN TypeError
    ELSE IF Nullish(base) THEN JsUndefined
    ELSE LET first == GetFirst(base) IN
         IF Nullish(first) THEN JsUndefined ELSE GetProperty(first, nestedField)

\* resolveMapping with the formula evaluated as a field of the record.
ResolveMappingFormulaEvaluated(mapping, shopifyProduct) ==
    IF mapping = <<>> THEN JsNull
    ELSE LET m == mapping[1] IN
         CASE m.mapping_type = "constant" -> m.target_value
           [] m.mapping_type \in {"shopify_field", "formula"} ->
                 IF ~Truthy(m.source_value) THEN JsNull
                 ELSE IF Includes(m.source_value.s, Marker)
                 THEN LET parts == Split(m.source_value.s, Marker) IN
                      Or(NestedField(shopifyProduct, parts[1], parts[2]), JsNull)
                 ELSE Or(GetProperty(shopifyProduct, m.source_value.s), JsNull)
           [] OTHER -> JsNull

\* resolveMapping
ResolveMapping(mapping, shopifyProduct) ==
    IF mapping = <<>> THEN JsNull
    ELSE LET m == mapping[1] IN
         CASE m.mapping_type = "constant" -> m.target_value
           [] m.mapping_type = "shopify_field" ->
                 IF ~Truthy(m.source_value) THEN JsNull
                 ELSE IF Includes(m.source_value.s, Marker)
                 THEN LET parts == Split(m.source_value.s, Marker) IN
                      Or(NestedField(shopifyProduct, parts[1], parts[2]), JsNull)
                 ELSE Or(GetProperty(shopifyProduct, m.source_value.s), JsNull)
           [] m.mapping_type = "formula" -> m.source_value
           [] OTHER -> JsNull

----------------------------------------------------------------------------
(* Listing-field helpers *)

Code == [c1000 |-> <<"1", "0", "0", "0">>,
         c1500 |-> <<"1", "5", "0", "0">>,
         c3000 |-> <<"3", "0", "0", "0">>,
         c7000 |-> <<"7", "0", "0", "0">>]

\* resolvedValue.toLowerCase() switched over the condition names.  A string
\* has the method; any other value whose toLowerCase is no function makes the
\* call throw, and one that has a function there (String.prototype, which is
\* a String object of the empty text) matches no name.
ConditionCode(resolvedValue) ==
    IF /\ resolvedValue.t # "string"
       /\ GetProperty(resolvedValue, Key.toLowerCase).t # "function" THEN TypeError
    ELSE LET name == ToLowerCase(IF resolvedValue.t = "string" THEN resolvedValue.s ELSE <<>>) IN
         CASE name = Str.new -> JsString(Code.c1000)
           [] name = Str.like_new -> JsString(Code.c1500)
           [] name \in {Str.used, Str.good} -> JsString(Code.c3000)
           [] name = Str.for_parts -> JsString(Code.c7000)
           [] OTHER -> JsString(Code.c3000)

\* The helpers after `const resolvedValue = await resolveMapping(...)`: what
\* each returns for the value resolved.  A TypeError thrown by resolveMapping
\* rejects the helper's call.

GetEbayCondition(resolvedValue) ==
    IF Threw(resolvedValue) THEN TypeError
    ELSE IF Truthy(resolvedValue) THEN ConditionCode(resolvedValue)
    ELSE JsString(Code.c3000)

GetEbayUPC(resolvedValue) == resolvedValue

\* getEbayTitle preferring the product's own title to the mapping.
GetEbayTitleProductFirst(resolvedValue, shopifyProduct) ==
    Or(Or(GetProperty(shopifyProduct, Key.title), resolvedValue), JsString(Str.UntitledProduct))

\* resolvedValue || shopifyProduct.title || 'Untitled Product'; a thrown
\* TypeError ends the chain (Or passes it on, as it is not falsy).
GetEbayTitle(resolvedValue, shopifyProduct) ==
    Or(Or(resolvedValue, GetProperty(shopifyProduct, Key.title)), JsString(Str.UntitledProduct))

\* getEbayDescription falling back to the title before body_html.
GetEbayDescriptionTitleFirst(resolvedValue, shopifyProduct) ==
    Or(Or(Or(resolvedValue, GetProperty(shopifyProduct, Key.title)),
          GetProperty(shopifyProduct, Key.body_html)),
       JsString(Str.NoDescription))

GetEbayDescription(resolvedValue, shopifyProduct) ==
    Or(Or(Or(resolvedValue, GetProperty(shopifyProduct, Key.body_html)),
          GetProperty(shopifyProduct, Key.title)),
       JsString(Str.NoDescription))

\* getEbayHandlingTime written as `Number(resolvedValue) || 1`.
GetEbayHandlingTimeZeroIsDefault(resolvedValue) ==
    IF Threw(resolvedValue) THEN TypeError
    ELSE Or(ToNumber(resolvedValue), JsNumber(1))

GetEbayHandlingTime(resolvedValue) ==
    IF Threw(resolvedValue) THEN TypeError
    ELSE IF Truthy(resolvedValue) /\ ~IsNaN(ToNumber(resolvedValue)) THEN ToNumber(resolvedValue)
    ELSE JsNumber(1)

----------------------------------------------------------------------------
(* The mapping store: updateMapping, updateMappingsBulk, importMappings *)

\* A value the driver binds to a parameter: a number, a string, null and
\* undefined (both as NULL).
Binds(v) == v.t \in {"number", "NaN", "Infinity", "string", "null", "undefined"}

\* An argument of stmt.run that is a string or a number of the model's plain
\* kind (a category, a field name, a mapping type, a display order): it binds
\* as one value and takes one parameter, which is all the binding needs of it.
OneValue == JsNull

\* stmt.run(...args) on a statement with `parameters` anonymous parameters
\* (the driver is better-sqlite3).  The arguments are bound in order.  An array
\* is spread, each element going to the next parameter (Array.prototype is an
\* empty array); an object whose prototype is Object.prototype or null (an
\* object read from JSON, and each built-in prototype but Array.prototype) is
\* taken for the named parameters, of which the statement has none: it binds
\* nothing, and a second such object is a TypeError; any other argument is one
\* value.  A value that is no number, string, null or undefined (a boolean, a
\* function, an array or object within an array) is a TypeError, a value
\* beyond the last parameter a RangeError, and so is a parameter left without
\* value after the last argument.  The first error ends the call before the
\* statement runs.  The result is the error (undefined when there is none)
\* and the values bound to the parameters.
BindArgs(args, parameters) ==
    LET RECURSIVE Bind(_, _, _)
        \* the arguments from `rest` on, after the values `bound`; `named`: an
        \* object was taken for the named parameters
        Bind(rest, bound, named) ==
            IF rest = <<>>
            THEN [error |-> IF Len(bound) < parameters THEN RangeError ELSE JsUndefined,
                  values |-> bound]
            ELSE LET v == Head(rest)
                     object == v.t = "object" \/ (v.t = "prototype" /\ v.s # Name.Array)
                     values == IF v.t = "array" THEN v.items
                               ELSE IF v.t = "prototype" THEN <<>>
                               ELSE IF v.t = "object" THEN <<>>
                               ELSE <<v>>
                     room == parameters - Len(bound)
                     \* the values the driver gets to before it stops
                     reached == IF Len(values) > room THEN room + 1 ELSE Len(values)
                 IN  IF object /\ named THEN [error |-> TypeError, values |-> bound]
                     ELSE IF \E i \in 1..reached : ~Binds(values[i])
                     THEN [error |-> TypeError, values |-> bound]
                     ELSE IF Len(values) > room THEN [error |-> RangeError, values |-> bound]
                     ELSE Bind(Tail(rest), bound \o values, named \/ object)
    IN  Bind(args, <<>>, FALSE)

\* What a TEXT column holds after v was bound to it.  A string is stored as it
\* is, null and undefined as NULL.  Every number is bound as a double, and the
\* column keeps the text SQLite prints for a double: NaN is NULL, the
\* infinities are Inf and -Inf, both zeros 0.0, and any other number has a
\* point (5 is 5.0) or, below 1e-4 and from ten to the power realDigits on, an
\* exponent of two digits at least (1.0e+20).  SQLite is the driver's own
\* copy, of a version the source does not fix: a build prints a double with 15
\* significant digits or with 17, and goes over to the exponent from 1e15 or
\* from 1e17 on; realDigits is the build's, chosen in the initial state of the
\* override store, the one specification that writes a number of that size.
\* The numbers of the model have at most 15 significant digits, which the text
\* keeps under both.
TextColumn(v) ==
    LET RECURSIVE DigitsOf(_)
        DigitsOf(n) ==
            IF n < 10 THEN <<Digits[n + 1]>> ELSE DigitsOf(n \div 10) \o <<Digits[(n % 10) + 1]>>
        RECURSIVE Zeros(_)
        Zeros(k) == IF k <= 0 THEN <<>> ELSE <<"0">> \o Zeros(k - 1)
        negative == IF v.s = <<>> THEN v.n < 0 ELSE Head(v.s) = "-"
        sign == IF negative THEN <<"-">> ELSE <<>>
        \* the number is the digits d times ten to the power p
        d == IF v.s = <<>> THEN DigitsOf(IF v.n < 0 THEN 0 - v.n ELSE v.n)
             ELSE IF negative THEN Tail(v.s) ELSE v.s
        p == IF v.s = <<>> THEN 0 ELSE v.n
        \* the power of ten of the first digit
        x == p + Len(d) - 1
        size == IF x < 0 THEN 0 - x ELSE x
        exponent == <<"e", IF x < 0 THEN "-" ELSE "+">>
                    \o (IF size < 10 THEN <<"0">> ELSE <<>>) \o DigitsOf(size)
        whole == IF Len(d) >= x + 1 THEN SubSeq(d, 1, x + 1) ELSE d \o Zeros(x + 1 - Len(d))
        fraction == IF Len(d) > x + 1 THEN SubSeq(d, x + 2, Len(d)) ELSE <<"0">>
    IN  CASE v.t \in {"null", "undefined", "NaN"} -> JsNull
          [] v.t = "Infinity" -> JsString(v.s \o <<"I", "n", "f">>)
          [] v.t = "number" ->
                JsString(IF d = <<"0">> THEN <<"0", ".", "0">>
                         ELSE IF x < 0 - 4 \/ x >= realDigits
                         THEN sign \o <<Head(d), ".">>
                              \o (IF Len(d) = 1 THEN <<"0">> ELSE Tail(d)) \o exponent
                         ELSE IF x >= 0 THEN sign \o whole \o <<".">> \o fraction
                         ELSE sign \o <<"0", ".">> \o Zeros(size - 1) \o d)
          [] OTHER -> v

\* What the column is_enabled (declared BOOLEAN, of NUMERIC affinity) holds
\* after v was bound to it.  null, undefined and NaN are NULL; a number is
\* itself (minus zero is the integer 0); a text that is a decimal literal,
\* with blanks of SQLite around it allowed (the white space of JavaScript
\* below U+0080), is stored as its number, and any other text as it is.
NumericColumn(v) ==
    LET blanks == {"\t", "\n", "", "\f", "\r", " "}
        RECURSIVE Strip(_)
        Strip(s) == IF s # <<>> /\ Head(s) \in blanks THEN Strip(Tail(s))
                    ELSE IF s # <<>> /\ s[Len(s)] \in blanks THEN Strip(SubSeq(s, 1, Len(s) - 1))
                    ELSE s
        x == Strip(v.s)
        literal == /\ x # <<>>
                   /\ \A i \in 1..Len(x) :
                         RadixDigit(x[i], 10) >= 0 \/ x[i] \in {"+", "-", ".", "e", "E"}
        number == StringToNumber(x)
        Integral(n) == IF n = JsDecimal(<<"-", "0">>, 0) THEN JsNumber(0) ELSE n
    IN  CASE v.t \in {"null", "undefined", "NaN"} -> JsNull
          [] v.t = "number" -> Integral(v)
          [] v.t = "string" ->
                IF literal /\ number.t = "number" THEN Integral(number) ELSE v
          [] OTHER -> v

\* The keys of `updates` whose value is not undefined.
UpdateFields(updates) ==
    {f \in DOMAIN updates \cap {"mapping_type", "source_value", "target_value",
                                "variation_mapping", "is_enabled"} :
        f \in {"source_value", "target_value", "variation_mapping"} => updates[f].t # "undefined"}

\* `values` of updateMapping before the two of WHERE: the fields of the SET
\* list in the order the code appends them, each with the value pushed for it
\* (the flag as 1 or 0).
UpdateValues(updates) ==
    LET set == SelectSeq(<<"mapping_type", "source_value", "target_value",
                           "variation_mapping", "is_enabled">>,
                         LAMBDA f : f \in UpdateFields(updates))
    IN  [i \in 1..Len(set) |->
            [field |-> set[i],
             value |-> CASE set[i] = "mapping_type" -> OneValue
                         [] set[i] = "is_enabled" ->
                                IF updates.is_enabled THEN JsNumber(1) ELSE JsNumber(0)
                         [] OTHER -> updates[set[i]]]]

\* The k-th value bound by a call with no error.
Bound(binding, k) == IF binding.error = JsUndefined THEN binding.values[k] ELSE JsNull

\* The UPDATE of updateMapping after `values` was bound to it: the error of
\* the binding, and for each field of the SET list what its column holds when
\* the statement writes a row.  The k-th field gets the k-th value bound,
\* which an array among the values makes another than the k-th of `values`;
\* mapping_type, if there, is the first and a single value, and so gets its
\* own.
UpdateBound(updates, values, binding) ==
    [error |-> binding.error,
     columns |-> [f \in UpdateFields(updates) |->
                     LET k == CHOOSE i \in 1..Len(values) : values[i].field = f IN
                     CASE f = "mapping_type" -> updates.mapping_type
                       [] f = "is_enabled" -> NumericColumn(Bound(binding, k))
                       [] OTHER -> TextColumn(Bound(binding, k))]]

\* stmt.run(...values) of updateMapping (line 155): the SET list's values
\* and the two of WHERE.
UpdateStatement(updates) ==
    UpdateBound(updates, UpdateValues(updates),
                BindArgs([i \in 1..Len(UpdateValues(updates)) |-> UpdateValues(updates)[i].value]
                             \o <<OneValue, OneValue>>,
                         Len(UpdateValues(updates)) + 2))

\* The row after UPDATE ... SET <the given columns>, updated_at = datetime('now').
ApplyUpdates(row, columns, t) ==
    LET fields == DOMAIN columns IN
    [row EXCEPT
        !.mapping_type = IF "mapping_type" \in fields THEN columns.mapping_type ELSE @,
        !.source_value = IF "source_value" \in fields THEN columns.source_value ELSE @,
        !.target_value = IF "target_value" \in fields THEN columns.target_value ELSE @,
        !.variation_mapping = IF "variation_mapping" \in fields THEN columns.variation_mapping ELSE @,
        !.is_enabled = IF "is_enabled" \in fields THEN columns.is_enabled ELSE @,
        !.updated_at = t]

\* The positions of the rows of a pair (at most one, by UNIQUE(category, field_name)).
RowsOf(rows, category, fieldName) ==
    {i \in 1..Len(rows) : rows[i].category = category /\ rows[i].field_name = fieldName}

\* updateMapping from its first test on, the statement's WHERE reaching the
\* rows `hit`: the table afterwards, the returned row (<<>> for null), whether
\* the call threw and the error.  With no field to set the call returns null
\* and runs nothing; an error of the binding throws before the statement
\* runs; a null mapping_type throws when it reaches a row (the column is NOT
\* NULL); a statement that changes no row returns null.
UpdateRun(rows, hit, statement, t) ==
    IF DOMAIN statement.columns = {}
    THEN [rows |-> rows, result |-> <<>>, threw |-> FALSE, error |-> JsUndefined]
    ELSE IF statement.error # JsUndefined
    THEN [rows |-> rows, result |-> <<>>, threw |-> TRUE, error |-> statement.error]
    ELSE IF /\ hit # {}
            /\ "mapping_type" \in DOMAIN statement.columns
            /\ statement.columns.mapping_type = Null
    THEN [rows |-> rows, result |-> <<>>, threw |-> TRUE, error |-> SqliteError]
    ELSE IF hit = {}
    THEN [rows |-> rows, result |-> <<>>, threw |-> FALSE, error |-> JsUndefined]
    ELSE [rows |-> [i \in 1..Len(rows) |->
                      IF i \in hit THEN ApplyUpdates(rows[i], statement.columns, t) ELSE rows[i]],
          result |-> <<ApplyUpdates(rows[CHOOSE i \in hit : \A j \in hit : i <= j],
                                    statement.columns, t)>>,
          threw |-> FALSE, error |-> JsUndefined]

\* A variant of UpdateMappingOutcome whose UPDATE reaches enabled rows only.
UpdateMappingEnabledOnly(rows, category, fieldName, updates, t) ==
    UpdateRun(rows, {i \in RowsOf(rows, category, fieldName) : rows[i].is_enabled = JsNumber(1)},
              UpdateStatement(updates), t)

\* updateMapping on the table `rows`: WHERE category = ? AND field_name = ?
\* reaches the row of the pair, enabled or not.
UpdateMappingOutcome(rows, category, fieldName, updates, t) ==
    UpdateRun(rows, RowsOf(rows, category, fieldName), UpdateStatement(updates), t)

\* No call of updateMappingsBulk is in progress.
NoBulk == [active |-> FALSE, args |-> <<>>, i |-> 0, updated |-> 0, failed |-> 0, errors |-> <<>>]

\* A variant of BulkAfterRow that counts a row as updated whenever updateMapping
\* did not throw.
BulkAfterRowCountsMisses(b, update, one) ==
    IF one.threw
    THEN [b EXCEPT !.i = @ + 1, !.failed = @ + 1,
                   !.errors = Append(@, <<"Error updating", update.category, update.field_name,
                                          one.error.t>>)]
    ELSE [b EXCEPT !.i = @ + 1, !.updated = @ + 1]

\* The body of the loop of updateMappingsBulk for one row, given the outcome
\* `one` of its updateMapping: the try/catch and the counters.  The message
\* of a caught error ends with the error.
BulkAfterRow(b, update, one) ==
    IF one.threw
    THEN [b EXCEPT !.i = @ + 1, !.failed = @ + 1,
                   !.errors = Append(@, <<"Error updating", update.category, update.field_name,
                                          one.error.t>>)]
    ELSE IF one.result # <<>> THEN [b EXCEPT !.i = @ + 1, !.updated = @ + 1]
    ELSE [b EXCEPT !.i = @ + 1, !.failed = @ + 1,
                   !.errors = Append(@, <<"Failed to update", update.category, update.field_name>>)]

\* The upsert of importMappings after its arguments were bound: the error, of
\* the binding or of a NOT NULL column given null, and what the columns hold
\* when the statement writes.  The fourth to the seventh parameter get the
\* fourth to the seventh value bound, whichever of source_value,
\* target_value, variation_mapping and is_enabled they come from.
UpsertBound(mapping, binding) ==
    [error |-> IF binding.error # JsUndefined THEN binding.error
               ELSE IF Null \in {mapping.category, mapping.field_name, mapping.mapping_type}
               THEN SqliteError
               ELSE JsUndefined,
     columns |-> [mapping_type |-> mapping.mapping_type,
                  source_value |-> TextColumn(Bound(binding, 4)),
                  target_value |-> TextColumn(Bound(binding, 5)),
                  variation_mapping |-> TextColumn(Bound(binding, 6)),
                  is_enabled |-> NumericColumn(Bound(binding, 7)),
                  display_order |-> mapping.display_order]]

\* upsert.run(...) of importMappings (lines 247-256): eight arguments for
\* eight parameters, the values of the row as they come (the flag is_enabled
\* too, so that a boolean is refused).
UpsertStatement(mapping) ==
    UpsertBound(mapping,
                BindArgs(<<OneValue, OneValue, OneValue, mapping.source_value,
                           mapping.target_value, mapping.variation_mapping, mapping.is_enabled,
                           OneValue>>, 8))

\* The upsert of importMappings throws on this row.
ImportRowFails(mapping) == UpsertStatement(mapping).error # JsUndefined

\* One run of the upsert statement, the rows `hit` being those in conflict
\* with the new row, on a table whose id is INTEGER PRIMARY KEY AUTOINCREMENT.
\* A statement with an error throws and leaves no trace.  Otherwise the
\* statement takes the id after `seq` and records it in sqlite_sequence,
\* whichever path it goes: a row in conflict is overwritten in place (the id
\* taken is lost and lastInsertRowid keeps its value), and with no such row a
\* row is appended under that id.
UpsertRun(rows, rowid, seq, mapping, t, statement, hit) ==
    IF statement.error # JsUndefined
    THEN [rows |-> rows, lastInsertRowid |-> rowid, sequence |-> seq, changes |-> 0,
          threw |-> TRUE, error |-> statement.error]
    ELSE IF hit # {}
    THEN [rows |-> [i \in 1..Len(rows) |->
                      IF i \in hit
                      THEN [rows[i] EXCEPT !.mapping_type = statement.columns.mapping_type,
                                           !.source_value = statement.columns.source_value,
                                           !.target_value = statement.columns.target_value,
                                           !.variation_mapping =
                                               statement.columns.variation_mapping,
                                           !.is_enabled = statement.columns.is_enabled,
                                           !.display_order = statement.columns.display_order,
                                           !.updated_at = t]
                      ELSE rows[i]],
          lastInsertRowid |-> rowid, sequence |-> seq + 1, changes |-> 1,
          threw |-> FALSE, error |-> JsUndefined]
    ELSE [rows |-> Append(rows,
                      [id |-> seq + 1, category |-> mapping.category,
                       field_name |-> mapping.field_name,
                       mapping_type |-> statement.columns.mapping_type,
                       source_value |-> statement.columns.source_value,
                       target_value |-> statement.columns.target_value,
                       variation_mapping |-> statement.columns.variation_mapping,
                       is_enabled |-> statement.columns.is_enabled,
                       display_order |-> statement.columns.display_order,
                       created_at |-> t, updated_at |-> t]),
          lastInsertRowid |-> seq + 1, sequence |-> seq + 1, changes |-> 1,
          threw |-> FALSE, error |-> JsUndefined]

\* The import statement without its ON CONFLICT clause and without the unique
\* index: every row is appended.
UpsertAlwaysInserts(rows, rowid, seq, mapping, t) ==
    UpsertRun(rows, rowid, seq, mapping, t, UpsertStatement(mapping), {})

\* A variant of UpsertOutcome that deletes the row of the pair when the imported
\* row is disabled.
UpsertDeletesDisabled(rows, rowid, seq, mapping, t) ==
    IF /\ ~ImportRowFails(mapping)
       /\ RowsOf(rows, mapping.category, mapping.field_name) # {}
       /\ UpsertStatement(mapping).columns.is_enabled = JsNumber(0)
    THEN [rows |-> SelectSeq(rows, LAMBDA m : ~(/\ m.category = mapping.category
                                               /\ m.field_name = mapping.field_name)),
          lastInsertRowid |-> rowid, sequence |-> seq + 1, changes |-> 1,
          threw |-> FALSE, error |-> JsUndefined]
    ELSE UpsertRun(rows, rowid, seq, mapping, t, UpsertStatement(mapping),
                   RowsOf(rows, mapping.category, mapping.field_name))

\* A variant of UpsertOutcome that enables every row it writes.
UpsertEnables(rows, rowid, seq, mapping, t) ==
    UpsertRun(rows, rowid, seq, mapping, t,
              [UpsertStatement(mapping) EXCEPT !.columns.is_enabled = JsNumber(1)],
              RowsOf(rows, mapping.category, mapping.field_name))

\* One run of the upsert of importMappings: ON CONFLICT(category, field_name)
\* DO UPDATE overwrites the row of the pair.  No row is ever deleted, so `seq`
\* is at least the largest id in the table.
UpsertOutcome(rows, rowid, seq, mapping, t) ==
    UpsertRun(rows, rowid, seq, mapping, t, UpsertStatement(mapping),
              RowsOf(rows, mapping.category, mapping.field_name))

\* importMappings: the loop over the batch, each row in its own try/catch.
RECURSIVE ImportMappingsOutcome(_, _, _, _, _)

\* The loop from the first row of the batch on, whose upsert had the outcome
\* `one`: the row is counted and the loop goes on with the rows after it.  The
\* message of a caught error ends with the error.
ImportMappingsAfter(one, batch, t) ==
    LET mapping == Head(batch)
        rest == ImportMappingsOutcome(one.rows, one.lastInsertRowid, one.sequence,
                                      Tail(batch), t)
    IN  IF one.threw
        THEN [rest EXCEPT
                !.errors = <<<<"Error importing", mapping.category, mapping.field_name,
                               one.error.t>>>> \o @]
        ELSE IF one.changes > 0 /\ one.lastInsertRowid # 0
        THEN [rest EXCEPT !.imported = @ + 1]
        ELSE IF one.changes > 0 THEN [rest EXCEPT !.updated = @ + 1]
        ELSE rest

ImportMappingsOutcome(rows, rowid, seq, batch, t) ==
    IF batch = <<>>
    THEN [rows |-> rows, lastInsertRowid |-> rowid, sequence |-> seq,
          imported |-> 0, updated |-> 0, errors |-> <<>>]
    ELSE ImportMappingsAfter(UpsertOutcome(rows, rowid, seq, Head(batch), t), batch, t)

\* exportMappings: SELECT * ... ORDER BY category, display_order ASC.  SQL fixes
\* no order among rows equal in both columns, so the call may return any
\* arrangement of the table that the ORDER BY admits: this is the set of them.
ExportMappings ==
    LET n == Len(mappings)
        \* the categories in the order of SQLite's BINARY collation
        categories == <<"listing", "payment", "sales", "shipping">>
        Rank(c) == CHOOSE i \in 1..Len(categories) : categories[i] = c
        \* ORDER BY category, display_order ASC: the row a does not come after b
        ExportOrdered(a, b) ==
            \/ Rank(a.category) < Rank(b.category)
            \/ a.category = b.category /\ a.display_order <= b.display_order
        orders == {p \in [1..n -> 1..n] :
                      /\ \A i, j \in 1..n : i # j => p[i] # p[j]
                      /\ \A i \in 1..(n - 1) : ExportOrdered(mappings[p[i]], mappings[p[i + 1]])}
    IN  {[i \in 1..n |-> mappings[p[i]]] : p \in orders}

UpdateMapping(category, fieldName, updates) ==
    \E out \in {UpdateMappingOutcome(mappings, category, fieldName, updates, now)} :
    /\ mappings' = out.rows
    /\ ret' = [fn |-> "updateMapping", args |-> <<category, fieldName, updates>>,
               result |-> [row |-> out.result, threw |-> out.threw, error |-> out.error]]
    /\ UNCHANGED <<overrides, overrideSchema, realDigits, helper, overrideSequence, lastInsertRowid, sequence, bulk,
                   pipelineVars, syncVars>>

\* updateMappingsBulk is called: it runs up to its first await.  One call is
\* in progress at a time.
UpdateMappingsBulk(updates) ==
    /\ ~bulk.active
    /\ bulk' = [NoBulk EXCEPT !.active = TRUE, !.args = updates]
    /\ UNCHANGED <<mappings, overrides, overrideSchema, realDigits, helper, overrideSequence, lastInsertRowid, sequence, ret,
                   pipelineVars, syncVars>>

\* One turn of the loop: `await updateMapping(...)` for the next row.  The
\* function gave way to the event loop before it (line 193 awaits, and
\* updateMapping awaits getRawDb() before its statement), so other calls of the
\* service may have run since the row before; the UPDATE and the SELECT of one
\* updateMapping run together.
UpdateMappingsBulkRow ==
    /\ bulk.active
    /\ bulk.i < Len(bulk.args)
    /\ \E update \in {bulk.args[bulk.i + 1]} :
       \E one \in {UpdateMappingOutcome(mappings, update.category, update.field_name,
                                        update.updateData, now)} :
           /\ mappings' = one.rows
           /\ bulk' = BulkAfterRow(bulk, update, one)
    /\ UNCHANGED <<overrides, overrideSchema, realDigits, helper, overrideSequence, lastInsertRowid, sequence, ret,
                   pipelineVars, syncVars>>

\* The loop is over: the counters are returned.
UpdateMappingsBulkReturn ==
    /\ bulk.active
    /\ bulk.i = Len(bulk.args)
    /\ ret' = [fn |-> "updateMappingsBulk", args |-> <<bulk.args>>,
               result |-> [updated |-> bulk.updated, failed |-> bulk.failed,
                           errors |-> bulk.errors]]
    /\ bulk' = NoBulk
    /\ UNCHANGED <<mappings, overrides, overrideSchema, realDigits, helper, overrideSequence, lastInsertRowid, sequence,
                   pipelineVars, syncVars>>

\* The call before was an import of the same list.
ImportedBefore(batch) == ret.fn = "importMappings" /\ ret.args = <<batch>>

\* importMappings awaits getRawDb() once and then runs its loop without giving
\* way: the statements of one call run together.  The call is recorded with
\* the time since when its list has been imported call after call.
ImportMappings(batch) ==
    \E out \in {ImportMappingsOutcome(mappings, lastInsertRowid, sequence, batch, now)} :
    /\ out.sequence <= MaxSequence
    /\ mappings' = out.rows
    /\ lastInsertRowid' = out.lastInsertRowid
    /\ sequence' = out.sequence
    /\ ret' = [fn |-> "importMappings", args |-> <<batch>>,
               result |-> [imported |-> out.imported, updated |-> out.updated,
                           errors |-> out.errors],
               since |-> IF ImportedBefore(batch) THEN ret.since ELSE now]
    /\ UNCHANGED <<overrides, overrideSchema, realDigits, helper, overrideSequence, bulk, pipelineVars, syncVars>>

----------------------------------------------------------------------------
(* The override store *)

\* The CREATE TABLE of product_mapping_overrides is not in the source.  The
\* statements fix that the table has a unique index on (shopify_product_id,
\* category, field_name) and the interface that its id is an integer; whether
\* the id is AUTOINCREMENT and whether value is NOT NULL is the build's, and
\* overrideSchema holds it.  value is a TEXT column.

\* The positions of the rows of a key (at most one: the upsert's conflict
\* target is a unique index on the three columns).
OverridesOf(rows, shopifyProductId, category, fieldName) ==
    {i \in 1..Len(rows) : /\ rows[i].shopify_product_id = shopifyProductId
                          /\ rows[i].category = category
                          /\ rows[i].field_name = fieldName}

\* The id the next inserted row gets: one more than the largest id ever taken
\* (`seq`, kept in sqlite_sequence) when the id is AUTOINCREMENT, and one more
\* than the largest id in the table when it is not.
NextOverrideId(schema, rows, seq) ==
    LET ids == {rows[i].id : i \in 1..Len(rows)} \cup {IF schema.autoincrement THEN seq ELSE 0}
    IN  1 + (CHOOSE m \in ids : \A i \in ids : i <= m)

\* getProductOverrides: the rows of the product.  The statement has no ORDER
\* BY, so the call may return them in any order (rowid order or the order of
\* the unique index, as the query plan has it): this is the set of the
\* arrangements.
GetProductOverrides(shopifyProductId) ==
    LET rows == SelectSeq(overrides, LAMBDA o : o.shopify_product_id = shopifyProductId)
        n == Len(rows)
    IN  {[i \in 1..n |-> rows[p[i]]] :
            p \in {q \in [1..n -> 1..n] : \A i, j \in 1..n : i # j => q[i] # q[j]}}

\* stmt.run(shopifyProductId, category, fieldName, value) of saveProductOverride
\* after its arguments were bound to the four parameters: the error, of the
\* binding or of a NOT NULL column given NULL, and what the column value
\* holds when the statement writes.
OverrideBound(schema, binding) ==
    [error |-> IF binding.error # JsUndefined THEN binding.error
               ELSE IF schema.notNull /\ TextColumn(Bound(binding, 4)) = JsNull THEN SqliteError
               ELSE JsUndefined,
     value |-> TextColumn(Bound(binding, 4))]

OverrideStatement(schema, value) ==
    OverrideBound(schema, BindArgs(<<OneValue, OneValue, OneValue, value>>, 4))

\* stmt.run throws on this value.
StatementFails(schema, value) == OverrideStatement(schema, value).error # JsUndefined

\* One run of the override upsert on the table `rows`, the rows `hit` being
\* those in conflict with the new row: the table, the connection's last
\* inserted rowid and sqlite_sequence afterwards, whether the statement threw
\* (it leaves no trace then) and the error.  A row in conflict is overwritten
\* in place and keeps its id; under AUTOINCREMENT the statement has taken an
\* id all the same, and that id is lost.
OverrideRun(schema, rows, rowid, seq, shopifyProductId, category, fieldName, t, statement, hit) ==
    LET id == NextOverrideId(schema, rows, seq)
        taken == IF schema.autoincrement THEN id ELSE seq
    IN  IF statement.error # JsUndefined
        THEN [rows |-> rows, lastInsertRowid |-> rowid, sequence |-> seq,
              threw |-> TRUE, error |-> statement.error]
        ELSE IF hit # {}
        THEN [rows |-> [i \in 1..Len(rows) |->
                          IF i \in hit
                          THEN [rows[i] EXCEPT !.value = statement.value, !.updated_at = t]
                          ELSE rows[i]],
              lastInsertRowid |-> rowid, sequence |-> taken,
              threw |-> FALSE, error |-> JsUndefined]
        ELSE [rows |-> Append(rows, [id |-> id, shopify_product_id |-> shopifyProductId,
                                     category |-> category, field_name |-> fieldName,
                                     value |-> statement.value, updated_at |-> t]),
              lastInsertRowid |-> id, sequence |-> taken,
              threw |-> FALSE, error |-> JsUndefined]

\* The override statement as a plain INSERT: a row is appended every time.
OverrideUpsertAppends(schema, rows, rowid, seq, shopifyProductId, category, fieldName, value, t) ==
    OverrideRun(schema, rows, rowid, seq, shopifyProductId, category, fieldName, t,
                OverrideStatement(schema, value), {})

\* The upsert of saveProductOverride: ON CONFLICT(shopify_product_id, category,
\* field_name) DO UPDATE overwrites the row of the key.
OverrideUpsert(schema, rows, rowid, seq, shopifyProductId, category, fieldName, value, t) ==
    OverrideRun(schema, rows, rowid, seq, shopifyProductId, category, fieldName, t,
                OverrideStatement(schema, value),
                OverridesOf(rows, shopifyProductId, category, fieldName))

\* saveProductOverride: the upsert; the call rejects with the statement's error.
SaveProductOverride(shopifyProductId, category, fieldName, value) ==
    \E out \in {OverrideUpsert(overrideSchema, overrides, lastInsertRowid, overrideSequence,
                               shopifyProductId, category, fieldName, value, now)} :
    /\ NextOverrideId(overrideSchema, overrides, overrideSequence) <= MaxOverrideId
    /\ overrides' = out.rows
    /\ lastInsertRowid' = out.lastInsertRowid
    /\ overrideSequence' = out.sequence
    /\ ret' = [fn |-> "saveProductOverride",
               args |-> <<shopifyProductId, category, fieldName, value>>,
               result |-> out.error]
    /\ UNCHANGED <<mappings, sequence, bulk, overrideSchema, realDigits, helper, pipelineVars, syncVars>>

DeleteProductOverride(shopifyProductId, category, fieldName) ==
    /\ overrides' = SelectSeq(overrides, LAMBDA o :
                        ~(/\ o.shopify_product_id = shopifyProductId
                          /\ o.category = category
                          /\ o.field_name = fieldName))
    /\ ret' = [fn |-> "deleteProductOverride",
               args |-> <<shopifyProductId, category, fieldName>>, result |-> JsUndefined]
    /\ UNCHANGED <<mappings, lastInsertRowid, sequence, bulk, overrideSchema, realDigits, helper, overrideSequence,
                   pipelineVars, syncVars>>

\* saveProductOverridesBulk: the loop over `overrides`, with no try/catch: a
\* throwing row ends the loop, the rows before it stay written (each run of
\* the statement commits on its own) and the call rejects.  `count` is the
\* number of rows stored.
RECURSIVE SaveProductOverridesBulkOutcome(_, _, _, _, _, _, _)
SaveProductOverridesBulkOutcome(schema, rows, rowid, seq, shopifyProductId, list, t) ==
    IF list = <<>>
    THEN [rows |-> rows, lastInsertRowid |-> rowid, sequence |-> seq, count |-> 0,
          threw |-> FALSE, error |-> JsUndefined]
    ELSE LET o == Head(list)
             one == OverrideUpsert(schema, rows, rowid, seq, shopifyProductId,
                                   o.category, o.field_name, o.value, t)
         IN  IF one.threw
             THEN [rows |-> rows, lastInsertRowid |-> rowid, sequence |-> seq,
                   count |-> 0, threw |-> TRUE, error |-> one.error]
             ELSE LET rest == SaveProductOverridesBulkOutcome(
                                  schema, one.rows, one.lastInsertRowid, one.sequence,
                                  shopifyProductId, Tail(list), t)
                  IN  [rest EXCEPT !.count = @ + 1]

SaveProductOverridesBulk(shopifyProductId, list) ==
    LET out == SaveProductOverridesBulkOutcome(overrideSchema, overrides, lastInsertRowid,
                                               overrideSequence, shopifyProductId, list, now) IN
    /\ NextOverrideId(overrideSchema, overrides, overrideSequence) + Len(list) - 1 <= MaxOverrideId
    /\ overrides' = out.rows
    /\ lastInsertRowid' = out.lastInsertRowid
    /\ overrideSequence' = out.sequence
    /\ ret' = [fn |-> "saveProductOverridesBulk", args |-> <<shopifyProductId, list>>,
               result |-> [count |-> out.count, threw |-> out.threw, error |-> out.error]]
    /\ UNCHANGED <<mappings, sequence, bulk, overrideSchema, realDigits, helper, pipelineVars, syncVars>>

----------------------------------------------------------------------------
(* Calls of resolveMapping and of the listing-field helpers *)

ResolveMappingCall(mapping, shopifyProduct) ==
    /\ ret' = [fn |-> "resolveMapping", args |-> <<mapping, shopifyProduct>>,
               result |-> ResolveMapping(mapping, shopifyProduct)]
    /\ UNCHANGED <<mappings, overrides, overrideSchema, realDigits, helper, overrideSequence, lastInsertRowid, sequence, bulk,
                   pipelineVars, syncVars>>

HelperNames == {"getEbayCondition", "getEbayUPC", "getEbayTitle", "getEbayDescription",
                "getEbayHandlingTime"}

\* The (category, field_name) pair a helper reads.
HelperKey(fn) ==
    CASE fn = "getEbayCondition" -> <<"listing", "condition">>
      [] fn = "getEbayUPC" -> <<"listing", "upc">>
      [] fn = "getEbayTitle" -> <<"listing", "title">>
      [] fn = "getEbayDescription" -> <<"listing", "description">>
      [] fn = "getEbayHandlingTime" -> <<"shipping", "handling_time">>

\* What a helper returns for the value resolved and the product.
Helper(fn, resolvedValue, shopifyProduct) ==
    CASE fn = "getEbayCondition" -> GetEbayCondition(resolvedValue)
      [] fn = "getEbayUPC" -> GetEbayUPC(resolvedValue)
      [] fn = "getEbayTitle" -> GetEbayTitle(resolvedValue, shopifyProduct)
      [] fn = "getEbayDescription" -> GetEbayDescription(resolvedValue, shopifyProduct)
      [] fn = "getEbayHandlingTime" -> GetEbayHandlingTime(resolvedValue)

\* No helper is being called.
NoHelper == [pc |-> "idle", fn |-> "none", shopifyProduct |-> JsUndefined,
             mapping |-> <<>>, resolvedValue |-> JsUndefined]

\* A helper is an async function of three awaits, and the calls of the
\* service that arrive in between run in between.  The call itself runs up
\* to `await getRawDb()` inside getMapping.  One call is in progress at a time
\* (a helper writes nothing, so that helpers have no effect on one another).
HelperCall(fn, shopifyProduct) ==
    /\ helper.pc = "idle"
    /\ helper' = [NoHelper EXCEPT !.pc = "getRawDb", !.fn = fn, !.shopifyProduct = shopifyProduct]
    /\ UNCHANGED <<mappings, overrides, overrideSchema, realDigits, overrideSequence,
                   lastInsertRowid, sequence, bulk, ret, pipelineVars, syncVars>>

\* getMapping resumes: the SELECT of the enabled row of the helper's pair.
HelperGetMapping ==
    /\ helper.pc = "getRawDb"
    /\ helper' = [helper EXCEPT !.pc = "getMapping",
                                !.mapping = GetMapping(HelperKey(helper.fn)[1],
                                                       HelperKey(helper.fn)[2])]
    /\ UNCHANGED <<mappings, overrides, overrideSchema, realDigits, overrideSequence,
                   lastInsertRowid, sequence, bulk, ret, pipelineVars, syncVars>>

\* The helper resumes from `await getMapping(...)` and calls resolveMapping,
\* whose body runs at once, on the row that was read.
HelperResolveMapping ==
    /\ helper.pc = "getMapping"
    /\ helper' = [helper EXCEPT !.pc = "resolveMapping",
                                !.resolvedValue = ResolveMapping(helper.mapping,
                                                                 helper.shopifyProduct)]
    /\ UNCHANGED <<mappings, overrides, overrideSchema, realDigits, overrideSequence,
                   lastInsertRowid, sequence, bulk, ret, pipelineVars, syncVars>>

\* The helper resumes from `await resolveMapping(...)` and returns.  The call
\* is recorded with the row its getMapping had read.
HelperReturn ==
    /\ helper.pc = "resolveMapping"
    /\ ret' = [fn |-> helper.fn, args |-> <<helper.shopifyProduct>>,
               result |-> Helper(helper.fn, helper.resolvedValue, helper.shopifyProduct),
               mapping |-> helper.mapping]
    /\ helper' = NoHelper
    /\ UNCHANGED <<mappings, overrides, overrideSchema, realDigits, overrideSequence,
                   lastInsertRowid, sequence, bulk, pipelineVars, syncVars>>

----------------------------------------------------------------------------
(* Inputs of the mapping service *)


\* The source records handed to resolveMapping and to the helpers: null,
\* undefined, a full product, the empty object, a product without variants
\* and without body_html, and a product whose texts are empty and whose
\* first variant has no barcode.
Products ==
    { JsNull,
      JsUndefined,
      JsObject((Key.id :> JsNumber(7)) @@ (Key.title :> JsString(<<"C", "a", "n", "o", "n", " ", "5", "D">>)) @@
               (Key.body_html :> JsString(<<"B", "o", "d", "y">>)) @@
               (Key.variants :> JsArray(<<JsObject(Key.barcode :> JsString(<<"1", "2", "3">>))>>))),
      JsObject(<<>>),
      JsObject((Key.id :> JsNumber(7)) @@ (Key.title :> JsString(<<"C", "a", "n", "o", "n", " ", "5", "D">>)) @@
               (Key.variants :> JsArray(<<>>))),
      JsObject((Key.id :> JsNumber(7)) @@ (Key.title :> JsString(<<>>)) @@
               (Key.body_html :> JsString(<<>>)) @@
               (Key.variants :> JsArray(<<JsObject(<<>>)>>))) }

\* The (category, field_name) pairs read by the five helpers.
HelperKeys ==
    { <<"listing", "condition">>, <<"listing", "upc">>, <<"listing", "title">>,
      <<"listing", "description">>, <<"shipping", "handling_time">> }

\* target_value of the constant rows.
TargetValues ==
    { JsNull, JsString(<<>>), JsString(<<"L", "i", "k", "e", " ", "N", "e", "w">>), JsString(<<"N", "E", "W">>),
      JsString(<<"u", "s", "e", "d">>), JsString(<<"G", "o", "o", "d">>), JsString(<<"F", "o", "r", " ", "P", "a", "r", "t", "s">>),
      JsString(<<"M", "i", "n", "t">>), JsString(<<"0">>), JsString(<<"1", "2">>),
      JsString(<<" ">>), JsString(<<" ", "2", " ">>), JsString(Str.Infinity) }

\* source_value of the shopify_field rows: plain keys, a name every object
\* inherits, nested paths, a path into a missing array, a path into a string
\* and a path with two markers.
SourceValues ==
    { JsNull, JsString(<<>>), JsString(Key.constructor), JsString(Key.title), JsString(Key.body_html), JsString(Key.id),
      JsString(Key.variants), JsString(<<"v", "a", "r", "i", "a", "n", "t", "s", "[", "0", "]", ".", "b", "a", "r", "c", "o", "d", "e">>),
      JsString(<<"i", "m", "a", "g", "e", "s", "[", "0", "]", ".", "s", "r", "c">>), JsString(<<"t", "i", "t", "l", "e", "[", "0", "]", ".", "l", "e", "n", "g", "t", "h">>),
      JsString(<<"v", "a", "r", "i", "a", "n", "t", "s", "[", "0", "]", ".", "b", "a", "r", "c", "o", "d", "e", "[", "0", "]", ".", "x">>) }

\* The rows the helper specification starts from: for each mapping type the
\* column that type reads runs over its values.
InputRows ==
    { MappingRow(1, k[1], k[2], "constant", JsNull, v, JsNumber(e), 0) :
          k \in HelperKeys, v \in TargetValues, e \in {0, 1} }
    \cup { MappingRow(1, k[1], k[2], "shopify_field", v, JsNull, JsNumber(e), 0) :
          k \in HelperKeys, v \in SourceValues, e \in {0, 1} }
    \cup { MappingRow(1, k[1], k[2], "formula", v, JsNull, JsNumber(e), 0) :
          k \in HelperKeys, v \in {JsNull, JsString(<<>>), JsString(Key.title)}, e \in {0, 1} }
    \cup { MappingRow(1, k[1], k[2], ty, JsString(Key.title), JsString(<<"L", "i", "k", "e", " ", "N", "e", "w">>),
                     JsNumber(e), 0) :
          k \in HelperKeys, ty \in {"edit_in_grid", "bogus"}, e \in {0, 1} }

\* No call of the mapping service has been made yet.
NoCall == [fn |-> "none", args |-> <<>>, result |-> JsUndefined]

\* The mapping defaults seeded at startup that the store specification begins
\* with: condition is the constant "Used", upc the Shopify field "barcode".
SeedMappings ==
    << MappingRow(1, "listing", "condition", "constant", JsNull, JsString(<<"U", "s", "e", "d">>),
                  JsNumber(1), 0),
       MappingRow(2, "listing", "upc", "shopify_field", JsString(Key.barcode), JsNull, JsNumber(1), 0) >>

----------------------------------------------------------------------------
(* Specifications *)

\* The sync command: its action has been entered and has called runSync for the
\* first time; the job store is empty and is not used.  (No operation of the
\* command, of the job tracker or of the mapping store reads overrideSchema:
\* their specifications start from one value of it.)
SyncInit ==
    /\ jobs = <<>>
    /\ now = 0
    /\ created = <<>>
    /\ born = <<>>
    /\ evicted = <<>>
    /\ lastOp = [op |-> "none", id |-> JobId(0, 0), hit |-> FALSE]
    /\ procAlive = TRUE
    /\ exitCode = 0
    /\ mainPc = "awaitFirstRun"
    /\ armed = 0
    /\ runs = [r \in 1..MaxActive |-> IF r = 1 THEN NewRun(FALSE) ELSE IdleRun]
    /\ opts \in [watch : WatchInputs, dryRun : {Undefined}, since : {Undefined}]
    /\ mappings = <<>>
    /\ overrides = <<>>
    /\ overrideSchema = [autoincrement |-> FALSE, notNull |-> FALSE]
    /\ overrideSequence = 0
    /\ realDigits = 15
    /\ lastInsertRowid = 0
    /\ sequence = Len(mappings)
    /\ bulk = NoBulk
    /\ helper = NoHelper
    /\ ret = NoCall


\* The sync command started once and in watch mode, with and without --dry-run
\* (a flag: missing or true) and --since (missing or a date).
OptionsInit ==
    /\ jobs = <<>>
    /\ now = 0
    /\ created = <<>>
    /\ born = <<>>
    /\ evicted = <<>>
    /\ lastOp = [op |-> "none", id |-> JobId(0, 0), hit |-> FALSE]
    /\ procAlive = TRUE
    /\ exitCode = 0
    /\ mainPc = "awaitFirstRun"
    /\ armed = 0
    /\ runs = [r \in 1..MaxActive |-> IF r = 1 THEN NewRun(FALSE) ELSE IdleRun]
    /\ opts \in [watch : {<<>>, <<"5">>}, dryRun : {Undefined, "true"},
                 since : {Undefined, "2024-01-01"}]
    /\ mappings = <<>>
    /\ overrides = <<>>
    /\ overrideSchema = [autoincrement |-> FALSE, notNull |-> FALSE]
    /\ overrideSequence = 0
    /\ realDigits = 15
    /\ lastInsertRowid = 0
    /\ sequence = Len(mappings)
    /\ bulk = NoBulk
    /\ helper = NoHelper
    /\ ret = NoCall

\* The job tracker after module load: an empty store; the sync command is not run.
PipelineInit ==
    /\ jobs = <<>>
    /\ now = 0
    /\ created = <<>>
    /\ born = <<>>
    /\ evicted = <<>>
    /\ lastOp = [op |-> "none", id |-> JobId(0, 0), hit |-> FALSE]
    /\ procAlive = FALSE
    /\ exitCode = 0
    /\ mainPc = "notStarted"
    /\ armed = 0
    /\ runs = [r \in 1..MaxActive |-> IdleRun]
    /\ opts = [watch |-> <<>>, dryRun |-> Undefined, since |-> Undefined]
    /\ mappings = <<>>
    /\ overrides = <<>>
    /\ overrideSchema = [autoincrement |-> FALSE, notNull |-> FALSE]
    /\ overrideSequence = 0
    /\ realDigits = 15
    /\ lastInsertRowid = 0
    /\ sequence = Len(mappings)
    /\ bulk = NoBulk
    /\ helper = NoHelper
    /\ ret = NoCall

\* The ids a caller may hold: every id ever returned, and one that never was.
KnownIds == SeqRange(created) \cup {JobId(0, MaxRand + 1)}

\* The product the n-th creation is called for: two products in turn.
ProductOf(n) == IF n % 2 = 1 THEN "p1" ELSE "p2"

\* Capacity and eviction: many creations under a ticking clock, jobs touched by
\* startPipelineJob, by updates of the first step and by updates of a step
\* that does not exist.
EvictNext ==
    \/ Tick
    \/ \E rnd \in 0..MaxRand : CreatePipelineJob(ProductOf(Len(created) + 1), rnd)
    \/ \E id \in KnownIds : StartPipelineJob(id)
    \/ \E id \in KnownIds : UpdatePipelineStep(id, "fetch_product", "done", Undefined)
    \* a step name no job has (the StepName type is erased at run time)
    \/ \E id \in KnownIds : UpdatePipelineStep(id, "no_such_step", "done", Undefined)

EvictSpec == PipelineInit /\ [][EvictNext]_vars

\* A few jobs of two products under a ticking clock, each started and its first
\* step updated through any id a caller may hold.
FrameNext ==
    \/ Tick
    \/ /\ Len(created) < MaxFrameJobs
       /\ \E rnd \in 0..MaxRand : CreatePipelineJob(ProductOf(Len(created) + 1), rnd)
    \/ \E id \in KnownIds : StartPipelineJob(id)
    \/ \E id \in KnownIds : UpdatePipelineStep(id, "fetch_product", "done", Undefined)

FrameSpec == PipelineInit /\ [][FrameNext]_vars

\* The id the step updates are aimed at: the first id returned.
FirstIds == IF created = <<>> THEN {} ELSE {created[1]}

\* Step updates: at most MaxStepJobs creations within one clock tick; the first
\* job is started and every step name and status is applied to it.
StepsNext ==
    \/ Len(created) < MaxStepJobs /\ \E rnd \in 0..MaxRand : CreatePipelineJob("p1", rnd)
    \/ \E id \in FirstIds : StartPipelineJob(id)
    \/ \E id \in FirstIds, i \in 1..Len(STEP_NAMES), st \in StepStatus :
          UpdatePipelineStep(id, STEP_NAMES[i], st, Undefined)

StepsSpec == PipelineInit /\ [][StepsNext]_vars

\* The step a writer of the automation works on: the first step of the job that
\* is not done, 0 when every step is done.
OpenStep(job) ==
    IF \A i \in 1..Len(job.steps) : job.steps[i].status = "done" THEN 0
    ELSE CHOOSE i \in 1..Len(job.steps) :
            /\ job.steps[i].status # "done"
            /\ \A j \in 1..(i - 1) : job.steps[j].status = "done"

\* What a writer reports: a step begun (no result), finished or failed (with a
\* result text).
WriterStatuses == {"running", "done", "error"}
ResultFor(status) ==
    IF status = "running" THEN Undefined ELSE IF status = "done" THEN "ok" ELSE "failed"

\* Writers of one job under a ticking clock: any number of callers start the
\* first job and report on its open step, in any order; a failed step is
\* retried.
WriterNext ==
    \/ Tick
    \/ Len(created) < MaxStepJobs /\ \E rnd \in 0..MaxRand : CreatePipelineJob("p1", rnd)
    \/ \E id \in FirstIds : StartPipelineJob(id)
    \/ \E id \in FirstIds, status \in WriterStatuses :
          /\ MapHas(jobs, id)
          /\ OpenStep(GetPipelineJob(id)) # 0
          /\ UpdatePipelineStep(id, STEP_NAMES[OpenStep(GetPipelineJob(id))], status,
                                ResultFor(status))

WriterSpec == PipelineInit /\ [][WriterNext]_vars

SyncNext ==
    \/ \E r \in 1..MaxActive, o \in TokenValues \cup {"throw"} : EbayTokenSettles(r, o)
    \/ \E r \in 1..MaxActive, o \in ShopifyTokenValues \cup {"throw"} : ShopifyTokenSettles(r, o)
    \/ \E r \in 1..MaxActive, o \in StepOutcomes : StepSettles(r, o)
    \/ MainResumes
    \/ ProcessEnds
    \/ TimerFire
    \/ \E r \in 1..MaxActive : UnhandledRejection(r)

SyncSpec == SyncInit /\ [][SyncNext]_vars

OptionsSpec == OptionsInit /\ [][SyncNext]_vars

\* The awaited calls settle, the timer fires, the action resumes.
SyncFairness ==
    /\ \A r \in 1..MaxActive :
          /\ WF_vars(\E o \in TokenValues \cup {"throw"} : EbayTokenSettles(r, o))
          /\ WF_vars(\E o \in ShopifyTokenValues \cup {"throw"} : ShopifyTokenSettles(r, o))
          /\ WF_vars(\E o \in StepOutcomes : StepSettles(r, o))
    /\ WF_vars(MainResumes)
    /\ WF_vars(ProcessEnds)
    /\ WF_vars(TimerFire)

FairSyncSpec == SyncSpec /\ SyncFairness

\* The listing-field helpers: the table holds no row or one input row; calls
\* of resolveMapping (with no mapping or with the table's row) and of the
\* helpers on every product, while updateMapping switches the row off and on
\* between the steps of a helper.  (No helper reads the override table.)
HelperInit ==
    /\ jobs = <<>>
    /\ now = 0
    /\ created = <<>>
    /\ born = <<>>
    /\ evicted = <<>>
    /\ lastOp = [op |-> "none", id |-> JobId(0, 0), hit |-> FALSE]
    /\ procAlive = FALSE
    /\ exitCode = 0
    /\ mainPc = "notStarted"
    /\ armed = 0
    /\ runs = [r \in 1..MaxActive |-> IdleRun]
    /\ opts = [watch |-> <<>>, dryRun |-> Undefined, since |-> Undefined]
    /\ mappings \in {<<>>} \cup {<<row>> : row \in InputRows}
    /\ overrides = <<>>
    /\ overrideSchema = [autoincrement |-> FALSE, notNull |-> FALSE]
    /\ overrideSequence = 0
    /\ realDigits = 15
    /\ lastInsertRowid = 0
    /\ sequence = Len(mappings)
    /\ bulk = NoBulk
    /\ helper = NoHelper
    /\ ret = NoCall

\* The helpers called on a table: a helper reads the row of its own pair only,
\* so the helper of the table's pair is called, and every helper on the empty
\* table.
HelpersOf(rows) ==
    {fn \in HelperNames :
        \A i \in 1..Len(rows) : HelperKey(fn) = <<rows[i].category, rows[i].field_name>>}

HelperNext ==
    \/ \E mapping \in {<<>>} \cup {<<mappings[i]>> : i \in 1..Len(mappings)},
          shopifyProduct \in Products : ResolveMappingCall(mapping, shopifyProduct)
    \/ \E fn \in HelpersOf(mappings), shopifyProduct \in Products : HelperCall(fn, shopifyProduct)
    \/ HelperGetMapping
    \/ HelperResolveMapping
    \/ HelperReturn
    \/ \E i \in 1..Len(mappings), updates \in {[is_enabled |-> FALSE], [is_enabled |-> TRUE]} :
          UpdateMapping(mappings[i].category, mappings[i].field_name, updates)

HelperSpec == HelperInit /\ [][HelperNext]_vars

\* The override value saved for an edit_in_grid rule.
CustomValue == JsString(<<"C", "u", "s", "t", "o", "m">>)

\* The helpers and the overrides: the table holds one row of a helper's pair,
\* an edit_in_grid rule or a constant, enabled or not; the override table is
\* declared in one of the four ways; an override may be saved once for
\* product 7 under the key of the row, before, after or between the steps of
\* a helper, and the helper of the row's pair is called on every product.
EditInGridInit ==
    /\ jobs = <<>>
    /\ now = 0
    /\ created = <<>>
    /\ born = <<>>
    /\ evicted = <<>>
    /\ lastOp = [op |-> "none", id |-> JobId(0, 0), hit |-> FALSE]
    /\ procAlive = FALSE
    /\ exitCode = 0
    /\ mainPc = "notStarted"
    /\ armed = 0
    /\ runs = [r \in 1..MaxActive |-> IdleRun]
    /\ opts = [watch |-> <<>>, dryRun |-> Undefined, since |-> Undefined]
    /\ mappings \in {<<row>> : row \in {r \in InputRows :
                          \/ r.mapping_type = "edit_in_grid"
                          \/ r.mapping_type = "constant" /\ r.target_value = JsString(<<"N", "E", "W">>)}}
    /\ overrides = <<>>
    /\ overrideSchema \in [autoincrement : BOOLEAN, notNull : BOOLEAN]
    /\ overrideSequence = 0
    /\ realDigits = 15
    /\ lastInsertRowid = 0
    /\ sequence = Len(mappings)
    /\ bulk = NoBulk
    /\ helper = NoHelper
    /\ ret = NoCall

EditInGridNext ==
    \/ \E fn \in HelpersOf(mappings), shopifyProduct \in Products : HelperCall(fn, shopifyProduct)
    \/ HelperGetMapping
    \/ HelperResolveMapping
    \/ HelperReturn
    \/ \E i \in 1..Len(mappings) :
          /\ overrides = <<>>
          /\ SaveProductOverride("7", mappings[i].category, mappings[i].field_name, CustomValue)

EditInGridSpec == EditInGridInit /\ [][EditInGridNext]_vars

\* The updates handed to updateMapping: disable, enable, retype, a null
\* mapping_type (refused by NOT NULL), no field at all and a new target value.
UpdateInputs ==
    { [is_enabled |-> FALSE], [is_enabled |-> TRUE], [mapping_type |-> "edit_in_grid"],
      [mapping_type |-> Null], <<>>,
      [target_value |-> JsString(Str.new), is_enabled |-> FALSE] }

\* Updates whose value is off the declared type: an array of one string, which
\* the driver spreads, and a boolean, which it refuses.
SpreadUpdates ==
    { [target_value |-> JsArray(<<JsString(<<"M", "i", "n", "t">>)>>)],
      [target_value |-> JsBoolean(TRUE)] }

\* The pairs updateMapping is aimed at; the second one is not seeded.
StoreKeys == { <<"listing", "condition">>, <<"listing", "title">> }

\* The lists handed to updateMappingsBulk, of four rows: a pair that is not
\* seeded, a null mapping_type, and for a seeded pair an array of one string,
\* which the driver spreads, and an array of two, which is one value too many.
BulkInputs ==
    LET title == [category |-> "listing", field_name |-> "title",
                  updateData |-> [is_enabled |-> TRUE]]
        upc == [category |-> "listing", field_name |-> "upc",
                updateData |-> [mapping_type |-> Null]]
        one == [category |-> "listing", field_name |-> "condition",
                updateData |-> [target_value |-> JsArray(<<JsString(Str.new)>>)]]
        two == [category |-> "listing", field_name |-> "condition",
                updateData |-> [target_value |-> JsArray(<<JsString(Str.new), JsString(Str.new)>>)]]
    IN  { <<>>, <<title>>, <<upc>>, <<one>>, <<two>>, <<title, one>>, <<two, upc>>, <<one, title>> }

\* A row of an import batch.
ImportRow(category, field_name, mapping_type, source_value, target_value, is_enabled) ==
    [category |-> category, field_name |-> field_name, mapping_type |-> mapping_type,
     source_value |-> source_value, target_value |-> target_value,
     variation_mapping |-> JsNull, is_enabled |-> is_enabled, display_order |-> 0]

\* The rows handed to importMappings: a seeded pair enabled and disabled, a
\* pair that is not seeded, a row without mapping_type, and a row whose
\* is_enabled is a boolean, as the interface AttributeMapping declares it.
ImportInputs ==
    { ImportRow("listing", "condition", "constant", JsNull, JsString(Str.new), JsNumber(1)),
      ImportRow("listing", "condition", "edit_in_grid", JsNull, JsNull, JsNumber(0)),
      ImportRow("listing", "title", "shopify_field", JsString(Key.title), JsNull, JsNumber(1)),
      ImportRow("listing", "upc", Null, JsNull, JsNull, JsNumber(1)),
      ImportRow("listing", "title", "constant", JsNull, JsString(Str.new), JsBoolean(TRUE)) }

\* The sequences over S of length at most n.
Batches(S, n) == UNION {[1..k -> S] : k \in 0..n}

\* The mapping store after startup: the seeded rows; no insert has been made
\* on this connection.
StoreInit ==
    /\ jobs = <<>>
    /\ now = 0
    /\ created = <<>>
    /\ born = <<>>
    /\ evicted = <<>>
    /\ lastOp = [op |-> "none", id |-> JobId(0, 0), hit |-> FALSE]
    /\ procAlive = FALSE
    /\ exitCode = 0
    /\ mainPc = "notStarted"
    /\ armed = 0
    /\ runs = [r \in 1..MaxActive |-> IdleRun]
    /\ opts = [watch |-> <<>>, dryRun |-> Undefined, since |-> Undefined]
    /\ mappings = SeedMappings
    /\ overrides = <<>>
    /\ overrideSchema = [autoincrement |-> FALSE, notNull |-> FALSE]
    /\ overrideSequence = 0
    /\ realDigits = 15
    /\ lastInsertRowid = 0
    /\ sequence = Len(mappings)
    /\ bulk = NoBulk
    /\ helper = NoHelper
    /\ ret = NoCall

StoreNext ==
    \/ \E k \in StoreKeys, updates \in UpdateInputs : UpdateMapping(k[1], k[2], updates)
    \/ \E batch \in Batches(ImportInputs, MaxBatch) : ImportMappings(batch)

StoreSpec == StoreInit /\ [][StoreNext]_vars

\* The calls that arrive while a bulk update is in progress: imports that
\* switch a seeded rule off and on again within one batch, switch it off, add
\* a new pair, and write a target value given as an array of one string;
\* single updates that disable a row.
BulkImportBatches ==
    LET off == ImportRow("listing", "condition", "edit_in_grid", JsNull, JsNull, JsNumber(0))
        on == ImportRow("listing", "condition", "constant", JsNull, JsString(Str.new), JsNumber(1))
        title == ImportRow("listing", "title", "shopify_field", JsString(Key.title), JsNull,
                           JsNumber(1))
        spread == ImportRow("listing", "upc", "constant", JsNull,
                            JsArray(<<JsString(<<"1", "2", "3">>)>>), JsNumber(1))
    IN  { <<off, on>>, <<off>>, <<title>>, <<spread>> }

\* Bulk updates, row by row, with imports and single updates between the rows.
BulkNext ==
    \/ \E updates \in BulkInputs : UpdateMappingsBulk(updates)
    \/ UpdateMappingsBulkRow
    \/ UpdateMappingsBulkReturn
    \/ \E batch \in BulkImportBatches : ImportMappings(batch)
    \/ \E k \in StoreKeys : UpdateMapping(k[1], k[2], [is_enabled |-> FALSE])

BulkSpec == StoreInit /\ [][BulkNext]_vars

\* Rules switched off and on over time: updates that set is_enabled and
\* one-row imports, under a ticking clock.
ToggleNext ==
    \/ Tick
    \/ \E k \in StoreKeys, updates \in {[is_enabled |-> FALSE], [is_enabled |-> TRUE]} :
          UpdateMapping(k[1], k[2], updates)
    \/ \E row \in ImportInputs : ImportMappings(<<row>>)

ToggleSpec == StoreInit /\ [][ToggleNext]_vars

\* Single updates over time: every update, of values of the declared type and
\* off it, aimed at the two seeded pairs and at a pair without row, under a
\* ticking clock.
UpdateNext ==
    \/ Tick
    \/ \E k \in StoreKeys \cup {<<"listing", "upc">>}, updates \in UpdateInputs \cup SpreadUpdates :
          UpdateMapping(k[1], k[2], updates)

UpdateSpec == StoreInit /\ [][UpdateNext]_vars

\* Export and import over time: rules are switched off and on and rows are
\* imported one by one; what exportMappings returns is imported, and the list
\* imported last is imported again, under a ticking clock.
RoundTripNext ==
    \/ Tick
    \/ \E k \in StoreKeys, updates \in {[is_enabled |-> FALSE], [is_enabled |-> TRUE]} :
          UpdateMapping(k[1], k[2], updates)
    \/ \E row \in ImportInputs : ImportMappings(<<row>>)
    \/ \E list \in ExportMappings : ImportMappings(list)
    \/ ret.fn = "importMappings" /\ ImportMappings(ret.args[1])

RoundTripSpec == StoreInit /\ [][RoundTripNext]_vars

\* The override keys (product, category, field) the operations are aimed at:
\* two fields of one product and one of these fields for a second product.
OverrideKeys == { <<"7", "listing", "condition">>, <<"7", "listing", "title">>,
                  <<"8", "listing", "condition">> }

\* The values saved: a string, an array of one string, which the driver
\* spreads, and the number 1e15, which SQLite turns into text.
OverrideValues ==
    { CustomValue, JsArray(<<CustomValue>>), JsDecimal(<<"1">>, 15) }

\* The override store: no override has been saved; the table is declared in
\* one of the four ways the statements allow, and SQLite is of a build that
\* prints a double with 15 or with 17 digits.
OverrideInit ==
    /\ jobs = <<>>
    /\ now = 0
    /\ created = <<>>
    /\ born = <<>>
    /\ evicted = <<>>
    /\ lastOp = [op |-> "none", id |-> JobId(0, 0), hit |-> FALSE]
    /\ procAlive = FALSE
    /\ exitCode = 0
    /\ mainPc = "notStarted"
    /\ armed = 0
    /\ runs = [r \in 1..MaxActive |-> IdleRun]
    /\ opts = [watch |-> <<>>, dryRun |-> Undefined, since |-> Undefined]
    /\ mappings = SeedMappings
    /\ overrides = <<>>
    /\ overrideSchema \in [autoincrement : BOOLEAN, notNull : BOOLEAN]
    /\ overrideSequence = 0
    /\ realDigits \in {15, 17}
    /\ lastInsertRowid = 0
    /\ sequence = Len(mappings)
    /\ bulk = NoBulk
    /\ helper = NoHelper
    /\ ret = NoCall

\* The lists handed to saveProductOverridesBulk, of four rows: two keys, a row
\* without a value (stored as NULL, or refused when the column is NOT NULL)
\* and a row whose value is an object, which no schema stores.
BulkOverrideInputs ==
    LET condition == [category |-> "listing", field_name |-> "condition", value |-> CustomValue]
        title == [category |-> "listing", field_name |-> "title", value |-> CustomValue]
        none == [category |-> "listing", field_name |-> "title", value |-> JsUndefined]
        object == [category |-> "listing", field_name |-> "title", value |-> JsObject(<<>>)]
    IN  { <<>>, <<condition>>, <<none>>, <<object>>, <<condition, title>>, <<title, none>>,
          <<object, condition>>, <<condition, object>> }

OverrideNext ==
    \/ \E k \in OverrideKeys, value \in OverrideValues : SaveProductOverride(k[1], k[2], k[3], value)
    \/ \E k \in OverrideKeys : DeleteProductOverride(k[1], k[2], k[3])
    \/ \E list \in BulkOverrideInputs : SaveProductOverridesBulk("7", list)

OverrideSpec == OverrideInit /\ [][OverrideNext]_vars

----------------------------------------------------------------------------
(* Claims about the job tracker *)

\* C1: the store never holds more than MAX_JOBS jobs, and MAX_JOBS + 1
\* creations leave exactly MAX_JOBS jobs, the first-created id not among them.
C1_CapacityFifo ==
    /\ Len(jobs) <= MAX_JOBS
    /\ Len(created) = MAX_JOBS + 1 =>
          /\ Len(jobs) = MAX_JOBS
          /\ GetPipelineJob(created[1]) = Undefined

\* C2: jobs leave the store in the order of their creation: the evicted creation
\* numbers increase, and every job still stored was created after every evicted one.
C2_EvictionInCreationOrder ==
    /\ \A i, j \in 1..Len(evicted) : i < j => evicted[i] < evicted[j]
    /\ \A i \in 1..Len(evicted), k \in 1..Len(born) : evicted[i] < born[k]
    /\ \A k, l \in 1..Len(born) : k < l => born[k] < born[l]

\* The status the claim gives a job with these steps.
C3_Expected(job) ==
    LET allDone == \A k \in 1..4 : job.steps[k].status = "done"
        anyError == \E k \in 1..4 : job.steps[k].status = "error"
    IN /\ (job.status = "done") <=> allDone
       /\ ~allDone => ((job.status = "error") <=> anyError)
       /\ (~allDone /\ ~anyError) => job.status = "processing"

\* C3: right after an updatePipelineStep that finds its job and step, the job is
\* done iff all four steps are done, else error iff a step is error, else processing.
C3_StatusAfterUpdate ==
    (lastOp.op = "update" /\ lastOp.hit) => C3_Expected(GetPipelineJob(lastOp.id))

\* A job updated to done, done, error, pending that shows error.
C3_Witness ==
    \E n \in 1..Len(jobs) :
        /\ [k \in 1..4 |-> jobs[n].steps[k].status] = <<"done", "done", "error", "pending">>
        /\ lastOp = [op |-> "update", id |-> jobs[n].id, hit |-> TRUE]
        /\ jobs[n].status = "error"

\* C4: every createPipelineJob returns an id no earlier call returned, so each
\* creation adds an entry and the store holds one job per creation not evicted.
C4_IdsUnique ==
    /\ \A i, j \in 1..Len(created) : i # j => created[i] # created[j]
    /\ Len(jobs) + Len(evicted) = Len(created)

----------------------------------------------------------------------------
(* Claims about the sync command *)

IsPrefix(s, t) == Len(s) <= Len(t) /\ \A i \in 1..Len(s) : s[i] = t[i]

\* C5: a run calls the step functions in the order orders, prices, inventory,
\* fulfillments, each only after the one before has returned or thrown, so at
\* most one step of a run is in progress.
C5_StepsInOrderOneAtATime ==
    \A r \in 1..MaxActive :
        /\ IsPrefix(runs[r].invoked,
                    <<"syncOrders", "syncPrices", "syncInventory", "syncFulfillments">>)
        /\ Cardinality(runs[r].inflight) <= 1
        /\ Len(runs[r].invoked) <= Len(runs[r].settled) + 1
        /\ runs[r].inflight # {} =>
              /\ Len(runs[r].invoked) = Len(runs[r].settled) + 1
              /\ runs[r].inflight = {runs[r].invoked[Len(runs[r].invoked)]}

\* A run waiting for syncInventory after syncPrices threw.
C5_Witness ==
    \E r \in 1..MaxActive :
        /\ runs[r].pc = "awaitStep"
        /\ runs[r].inflight = {"syncInventory"}
        /\ runs[r].settled = <<"ok", "boom">>

\* C6: once a run has passed the token checks it never rejects; every step that
\* settled is reported (failed, with its message, if it threw) and is followed by
\* the call of the next step; a finished run has attempted all four.
C6_FailureIsolation ==
    \A r \in 1..MaxActive :
        Len(runs[r].invoked) > 0 =>
            /\ runs[r].pc \in {"awaitStep", "done"}
            /\ \A k \in 1..Len(runs[r].settled) :
                  /\ runs[r].reports[k].step = runs[r].invoked[k]
                  /\ runs[r].settled[k] \in ErrorMessages =>
                        /\ runs[r].reports[k].kind = "fail"
                        /\ runs[r].reports[k].text = runs[r].settled[k]
                  /\ runs[r].settled[k] = "ok" => runs[r].reports[k].kind = "succeed"
            /\ runs[r].pc = "awaitStep" =>
                  Len(runs[r].invoked) = Len(runs[r].settled) + 1
            /\ runs[r].pc = "done" =>
                  /\ Len(runs[r].invoked) = 4
                  /\ Len(runs[r].settled) = 4

\* A finished run whose first and third step threw.
C6_Witness ==
    \E r \in 1..MaxActive :
        /\ runs[r].pc = "done"
        /\ runs[r].settled = <<"boom", "ok", "boom", "ok">>

\* Both token providers have answered in this run.
TokensObtained(run) == run.ebayToken # Undefined /\ run.shopifyToken # Undefined

\* C7: a run that got an absent token from either provider is refused: no step
\* function is called, nothing but one error message is reported (no step result,
\* no completion marker), and the exit code is set to non-zero.
C7_RefusedWithoutTokens ==
    \A r \in 1..MaxActive :
        /\ (Falsy(runs[r].ebayToken) \/ Falsy(runs[r].shopifyToken)) =>
              /\ runs[r].invoked = <<>>
              /\ runs[r].settled = <<>>
        /\ (TokensObtained(runs[r])
              /\ (Falsy(runs[r].ebayToken) \/ Falsy(runs[r].shopifyToken))) =>
              /\ runs[r].pc = "refused"
              /\ Len(runs[r].reports) = 1
              /\ runs[r].reports[1].kind = "error"
              /\ exitCode # 0

\* A run refused because the Shopify token is missing while the eBay token is there.
C7_Witness ==
    \E r \in 1..MaxActive :
        /\ runs[r].pc = "refused"
        /\ runs[r].ebayToken = "tok"
        /\ runs[r].shopifyToken = Null

\* C8: in watch mode no error inside a run ends the loop: the process stays
\* alive, and once the first run has settled the timer is armed.
C8_WatchLoopSurvives ==
    WatchGiven(opts.watch) =>
        /\ procAlive
        /\ Settled(runs[1]) /\ mainPc # "awaitFirstRun" => armed # 0

\* C9: at most one run is in progress at any time.
C9_SingleFlight ==
    Cardinality({r \in 1..MaxActive : InProgress(runs[r])}) <= 1

\* A run has just been started.
RunStarting == \E r \in 1..MaxActive : runs[r].pc = "awaitEbay"
CommandEnded == mainPc \in {"returned", "rejected"}

\* C10: with a poll interval the timer is armed only after the first run has
\* completed, runs are started again and again for ever and the command never
\* returns; without one the command returns after its single run.
C10_WatchRepeatsForever ==
    /\ [](armed # 0 => runs[1].pc \in {"done", "refused"} \/ runs[1].byTimer)
    /\ WatchGiven(opts.watch) => ([]<>RunStarting /\ []~CommandEnded)
    /\ ~WatchGiven(opts.watch) =>
          (<>CommandEnded /\ [](\A r \in 1..MaxActive : ~runs[r].byTimer))

----------------------------------------------------------------------------
(* Claims about mapping resolution and the listing-field helpers *)

\* The calls of the mapping service that resolve a value.
ResolutionCalls == HelperNames \cup {"resolveMapping"}

\* C11: resolveMapping and the five helpers never throw: for every mapping and
\* every source record, null and undefined included, the call returns a value.
C11_NeverThrows == ret.fn \in ResolutionCalls => ~Threw(ret.result)

\* The shopify_product_id of a product record: its id in decimal (one digit).
ProductIdOf(product) == Digits[product.fields[Key.id].n + 1]

\* C12: when the enabled mapping of a helper's field has type edit_in_grid and
\* an override is saved for (product, category, field), the helper returns the
\* override value.  (That no other mapping type consults the override store
\* holds by construction: no helper reads the table.)
C12_OverrideTakesPrecedence ==
    (ret.fn \in HelperNames /\ ret.args[1].t = "object" /\ Key.id \in DOMAIN ret.args[1].fields) =>
        LET key == HelperKey(ret.fn)
            mapping == GetMapping(key[1], key[2])
        IN  \A list \in GetProductOverrides(ProductIdOf(ret.args[1])) :
                LET saved == SelectSeq(list, LAMBDA o :
                                 o.category = key[1] /\ o.field_name = key[2])
                IN  (mapping # <<>> /\ mapping[1].mapping_type = "edit_in_grid" /\ saved # <<>>)
                        => ret.result = saved[1].value

\* A call of resolveMapping with a shopify_field mapping on a record object.
C13_Case ==
    /\ ret.fn = "resolveMapping"
    /\ ret.args[1] # <<>>
    /\ ret.args[1][1].mapping_type = "shopify_field"
    /\ ret.args[2].t = "object"

\* The own property `key` of an object, undefined when it has none.
C13_Own(object, key) == IF key \in DOMAIN object.fields THEN object.fields[key] ELSE JsUndefined

\* C13 as stated: an empty source_value gives null; a path with the marker
\* gives the nested field of the first element of the named array, null when
\* the array is missing or empty or the nested field is missing; a plain path
\* gives the record's key of that name, null when the key is missing.
C13_PathLookup ==
    C13_Case =>
        LET source == ret.args[1][1].source_value
            record == ret.args[2]
        IN  IF source.t # "string" \/ source.s = <<>> THEN ret.result = JsNull
            ELSE IF Includes(source.s, Marker)
            THEN LET parts == Split(source.s, Marker)
                     array == C13_Own(record, parts[1])
                 IN  IF /\ array.t = "array"
                        /\ array.items # <<>>
                        /\ array.items[1].t = "object"
                        /\ parts[2] \in DOMAIN array.items[1].fields
                     THEN ret.result = array.items[1].fields[parts[2]]
                     ELSE ret.result = JsNull
            ELSE IF source.s \in DOMAIN record.fields
                 THEN ret.result = record.fields[source.s]
                 ELSE ret.result = JsNull

\* The first element of an array or the first character of a string,
\* undefined when there is none.
C13_First(v) ==
    IF v.t = "array" /\ v.items # <<>> THEN v.items[1]
    ELSE IF v.t = "string" /\ v.s # <<>> THEN JsString(<<v.s[1]>>)
    ELSE JsUndefined

\* The property `key` of an element: own property of an object, length of a
\* string, undefined otherwise.
C13_Nested(element, key) ==
    IF element.t = "object" THEN C13_Own(element, key)
    ELSE IF element.t = "string" /\ key = Key.length THEN JsNumber(Len(element.s))
    ELSE JsUndefined

\* C13, read with the code's `|| null`: the value found is returned when it is
\* truthy, and null when the record has no key of that name or the value is
\* falsy (undefined, null, "", 0).  A path with the marker is split at the
\* marker into a base and a nested name (text after a second marker is
\* ignored) and reads the nested key of the first element of the record's
\* base key; a plain path reads the record's key named by source_value.
C13_PathLookupFalsyIsNull ==
    C13_Case =>
        LET source == ret.args[1][1].source_value
            record == ret.args[2]
            found == IF Includes(source.s, Marker)
                     THEN LET parts == Split(source.s, Marker) IN
                          C13_Nested(C13_First(C13_Own(record, parts[1])), parts[2])
                     ELSE C13_Own(record, source.s)
        IN  IF source.t # "string" \/ source.s = <<>> THEN ret.result = JsNull
            ELSE IF Truthy(found) THEN ret.result = found
            ELSE ret.result = JsNull

\* "variants[0].barcode" on {variants: [{barcode: "123"}]} has given "123".
\* (The lookup of a key the record does have works as C13 says.)
C13_Witness ==
    /\ C13_Case
    /\ Includes(ret.args[1][1].source_value.s, Marker)
    /\ ret.result = JsString(<<"1", "2", "3">>)

\* C14: for every source record (null and undefined included) the result for
\* a mapping that is not a shopify_field depends on the mapping only: null for
\* no mapping, target_value for a constant, source_value for a formula, null
\* for edit_in_grid and for an unknown type.
C14_DependsOnMappingOnly ==
    (ret.fn = "resolveMapping"
        /\ (ret.args[1] = <<>> \/ ret.args[1][1].mapping_type # "shopify_field")) =>
        ret.result =
            IF ret.args[1] = <<>> THEN JsNull
            ELSE CASE ret.args[1][1].mapping_type = "constant" -> ret.args[1][1].target_value
                   [] ret.args[1][1].mapping_type = "formula" -> ret.args[1][1].source_value
                   [] OTHER -> JsNull

\* A constant has been resolved on the null record and has given its value.
C14_Witness ==
    /\ ret.fn = "resolveMapping"
    /\ ret.args[1] # <<>>
    /\ ret.args[1][1].mapping_type = "constant"
    /\ ret.args[2] = JsNull
    /\ Truthy(ret.result)
    /\ ret.result = ret.args[1][1].target_value

----------------------------------------------------------------------------
(* Claims about the mapping store and the override store *)

\* C15: after any sequence of updateMapping, updateMappingsBulk and
\* importMappings calls no two enabled rows share a (category, field_name).
C15_EnabledPairsUnique ==
    \A i, j \in 1..Len(mappings) :
        (/\ mappings[i].is_enabled = JsNumber(1)
         /\ mappings[j].is_enabled = JsNumber(1)
         /\ mappings[i].category = mappings[j].category
         /\ mappings[i].field_name = mappings[j].field_name) => i = j

\* An import has repeated a pair within its batch, first disabled and then
\* enabled again, and the pair has an enabled row.
C15_Witness ==
    /\ ret.fn = "importMappings"
    /\ Len(ret.args[1]) = 2
    /\ ret.args[1][1].category = ret.args[1][2].category
    /\ ret.args[1][1].field_name = ret.args[1][2].field_name
    /\ ret.args[1][1].is_enabled = JsNumber(0)
    /\ ret.args[1][2].is_enabled = JsNumber(1)
    /\ GetMapping(ret.args[1][2].category, ret.args[1][2].field_name) # <<>>

\* The entries of getProductOverrides(p) for the key (p, c, f), for each
\* order the call may answer in.
C16_Entries(p, c, f) ==
    {SelectSeq(list, LAMBDA o : o.category = c /\ o.field_name = f) :
        list \in GetProductOverrides(p)}

\* The rows of an override table that are not the row of the key (p, c, f).
C16_Others(rows, p, c, f) ==
    SelectSeq(rows, LAMBDA o :
        ~(o.shopify_product_id = p /\ o.category = c /\ o.field_name = f))

\* The text 1e15 is stored as: SQLite prints the double in full or with an
\* exponent, as the build has it.
C16_Text ==
    IF realDigits > 15
    THEN JsString(<<"1", "0", "0", "0", "0", "0", "0", "0", "0", "0", "0", "0", "0", "0", "0", "0",
                    ".", "0">>)
    ELSE JsString(<<"1", ".", "0", "e", "+", "1", "5">>)

\* After a save the product's overrides hold exactly one entry of the key,
\* with the value saved: a string (the declared type of value) as it is; of
\* the values off that type, an array of one string is stored as that string
\* and the number 1e15 as its text.  The saves of the specification all
\* return.  After a delete the overrides hold no entry of the key.
C16_AfterCall ==
    /\ ret.fn = "saveProductOverride" =>
          /\ ret.result = JsUndefined
          /\ \A entries \in C16_Entries(ret.args[1], ret.args[2], ret.args[3]) :
                /\ Len(entries) = 1
                /\ entries[1].value =
                      CASE ret.args[4].t = "string" -> ret.args[4]
                        [] ret.args[4].t = "array" -> ret.args[4].items[1]
                        [] ret.args[4].t = "number" -> C16_Text
    /\ ret.fn = "deleteProductOverride" =>
          C16_Entries(ret.args[1], ret.args[2], ret.args[3]) = {<<>>}

\* A save or delete leaves the rows of every other key as they were.
C16_OthersKept ==
    ret'.fn \in {"saveProductOverride", "deleteProductOverride"} =>
        C16_Others(overrides', ret'.args[1], ret'.args[2], ret'.args[3])
            = C16_Others(overrides, ret'.args[1], ret'.args[2], ret'.args[3])

\* C16: override round trip: a save leaves exactly one entry of its key in
\* getProductOverrides(p), holding the value saved (a second save replaces the
\* value); a delete leaves none; the overrides of other products and of other
\* keys are unchanged by both.
C16_OverrideRoundTrip == []C16_AfterCall /\ [][C16_OthersKept]_vars

\* A save of ["Custom"] has replaced the value of an existing entry (the
\* connection's last inserted rowid is not that entry's) by "Custom", while
\* another product has an override.
C16_Witness ==
    /\ ret.fn = "saveProductOverride"
    /\ ret.args[4] = JsArray(<<CustomValue>>)
    /\ \A entries \in C16_Entries(ret.args[1], ret.args[2], ret.args[3]) :
          Len(entries) = 1 /\ entries[1].id # lastInsertRowid /\ entries[1].value = CustomValue
    /\ \E i \in 1..Len(overrides) : overrides[i].shopify_product_id # ret.args[1]

\* The value a returned helper call had resolved: resolveMapping of the row
\* its getMapping read, for the product of the call.
Resolved(call) == ResolveMapping(call.mapping, call.args[1])

\* getMapping within a call of the helper fn reads the enabled row of the
\* helper's pair in the table of that moment, and no row when the pair has no
\* enabled row; the call then holds on to what was read.
HelperReads(fn) ==
    /\ (helper.fn = fn /\ helper.pc = "getRawDb" /\ helper'.pc = "getMapping") =>
          LET enabled == {i \in RowsOf(mappings, HelperKey(fn)[1], HelperKey(fn)[2]) :
                             mappings[i].is_enabled = JsNumber(1)}
          IN  IF enabled = {} THEN helper'.mapping = <<>>
              ELSE \E i \in enabled : helper'.mapping = <<mappings[i]>>
    /\ (helper.fn = fn /\ helper.pc = "getMapping") => helper'.mapping = helper.mapping
    /\ (helper.fn = fn /\ helper.pc = "resolveMapping" /\ helper'.pc = "idle") =>
          ret'.mapping = helper.mapping /\ ret'.args = <<helper.shopifyProduct>>

\* C17: getEbayCondition gives "1000" for "new", "1500" for "like new", "3000"
\* for "used" and "good", "7000" for "for parts" (compared without regard to
\* case) and "3000" for every other resolved value, for null and for no
\* enabled mapping; the result is always one of the four codes.
C17_ConditionCodes ==
    (ret.fn = "getEbayCondition" /\ ~Threw(Resolved(ret))) =>
        LET resolved == Resolved(ret)
            name == IF resolved.t = "string" THEN ToLowerCase(resolved.s) ELSE <<>>
        IN  /\ ret.result \in {JsString(Code.c1000), JsString(Code.c1500),
                               JsString(Code.c3000), JsString(Code.c7000)}
            /\ ret.result =
                  CASE name = Str.new -> JsString(Code.c1000)
                    [] name = Str.like_new -> JsString(Code.c1500)
                    [] name = Str.for_parts -> JsString(Code.c7000)
                    [] OTHER -> JsString(Code.c3000)

\* The own property `key` of a product record, undefined when it has none.
ProductField(product, key) ==
    IF key \in DOMAIN product.fields THEN product.fields[key] ELSE JsUndefined

\* What getEbayTitle returned for the row it had read.
C18_Returned ==
    (ret.fn = "getEbayTitle" /\ ret.args[1].t = "object") =>
        LET resolved == Resolved(ret)
            title == ProductField(ret.args[1], Key.title)
        IN  /\ ret.result = IF Truthy(resolved) THEN resolved
                            ELSE IF Truthy(title) THEN title
                            ELSE JsString(Str.UntitledProduct)
            /\ ret.result \notin {JsNull, JsUndefined, JsString(<<>>)}
            /\ (ret.mapping = <<>>
                    /\ title = JsString(<<"C", "a", "n", "o", "n", " ", "5", "D">>))
                  => ret.result = JsString(<<"C", "a", "n", "o", "n", " ", "5", "D">>)

\* C18: for a product record (an object) getEbayTitle returns the value
\* resolved from the listing.title mapping when there is one, otherwise
\* product.title when present, otherwise "Untitled Product"; with no mapping
\* and the title "Canon 5D" it returns "Canon 5D"; it never returns null or
\* the empty string.  The mapping is the enabled row of listing.title at the
\* moment the call reads the table, whatever is written before it returns.
C18_TitleFallback == []C18_Returned /\ [][HelperReads("getEbayTitle")]_vars

\* With no enabled title mapping when the call read the table, the title
\* "Canon 5D" has been returned, although the rule was enabled before the
\* call returned.
C18_Witness ==
    /\ ret.fn = "getEbayTitle"
    /\ ret.args[1].t = "object"
    /\ ret.mapping = <<>>
    /\ ret.result = JsString(<<"C", "a", "n", "o", "n", " ", "5", "D">>)
    /\ GetMapping("listing", "title") # <<>>
    /\ Truthy(ResolveMapping(GetMapping("listing", "title"), ret.args[1]))

\* What getEbayDescription returned for the row it had read.
C19_Returned ==
    (ret.fn = "getEbayDescription" /\ ret.args[1].t = "object") =>
        LET sources == << Resolved(ret),
                          ProductField(ret.args[1], Key.body_html),
                          ProductField(ret.args[1], Key.title),
                          JsString(Str.NoDescription) >>
        IN  \E k \in 1..4 :
                /\ ret.result = sources[k]
                /\ Truthy(sources[k])
                /\ \A j \in 1..(k - 1) : ~Truthy(sources[j])

\* C19: for a product record (an object) getEbayDescription returns the first
\* available of: the value resolved from the listing.description mapping,
\* product.body_html, product.title, "No description available"; a later
\* source is used only when every earlier one is absent.  The mapping is the
\* enabled row of listing.description at the moment the call reads the table.
C19_DescriptionFallback == []C19_Returned /\ [][HelperReads("getEbayDescription")]_vars

\* The title has been returned for a product without body_html: the call had
\* read no enabled description mapping, and the rule, enabled before the call
\* returned, resolves to a text.
C19_Witness ==
    /\ ret.fn = "getEbayDescription"
    /\ ret.args[1].t = "object"
    /\ ret.mapping = <<>>
    /\ Key.body_html \notin DOMAIN ret.args[1].fields
    /\ Truthy(ProductField(ret.args[1], Key.title))
    /\ ret.result = ProductField(ret.args[1], Key.title)
    /\ Truthy(ResolveMapping(GetMapping("listing", "description"), ret.args[1]))
    /\ ResolveMapping(GetMapping("listing", "description"), ret.args[1]) # ret.result

\* Number(v) is a number: v "parses as a number".
C20_Parses(v) == v.t \notin {"null", "undefined"} /\ ~IsNaN(ToNumber(v))

\* What getEbayHandlingTime returned, as stated: the number parsed from the
\* resolved value whenever that value parses as a number ("0" included), and
\* the default 1 exactly when the call read no enabled mapping, the resolved
\* value is null, or it does not parse as a number.
C20_ReturnedParsed ==
    (ret.fn = "getEbayHandlingTime" /\ ~Threw(Resolved(ret))) =>
        LET resolved == Resolved(ret) IN
        IF C20_Parses(resolved) THEN ret.result = ToNumber(resolved)
        ELSE ret.result = JsNumber(1)

\* C20 as stated; the mapping is the enabled row of shipping.handling_time at
\* the moment the call reads the table.
C20_HandlingTimeParsed ==
    []C20_ReturnedParsed /\ [][HelperReads("getEbayHandlingTime")]_vars

\* What getEbayHandlingTime returned: the empty string is answered with the
\* default 1 as well, although Number("") is 0.
C20_ReturnedEmptyIsDefault ==
    (ret.fn = "getEbayHandlingTime" /\ ~Threw(Resolved(ret))) =>
        LET resolved == Resolved(ret) IN
        IF C20_Parses(resolved) /\ resolved # JsString(<<>>)
        THEN ret.result = ToNumber(resolved)
        ELSE ret.result = JsNumber(1)

\* C20, amended: the empty string is answered with the default 1 as well,
\* although Number("") is 0; every other text that Number reads (digits with
\* blanks around them, blanks alone, which read as 0) gives that number.  The
\* mapping is the enabled row of shipping.handling_time at the moment the call
\* reads the table.
C20_HandlingTimeEmptyIsDefault ==
    []C20_ReturnedEmptyIsDefault /\ [][HelperReads("getEbayHandlingTime")]_vars

\* The resolved text "0" has given the handling time 0, from a rule that was
\* disabled before the call returned.
C20_Witness ==
    /\ ret.fn = "getEbayHandlingTime"
    /\ Resolved(ret) = JsString(<<"0">>)
    /\ ret.result = JsNumber(0)
    /\ GetMapping("shipping", "handling_time") = <<>>

\* The number of positions of a sequence that satisfy a test.
CountOf(list, Test(_)) == Cardinality({i \in 1..Len(list) : Test(list[i])})

\* updateMappingsBulk went through its whole batch: every row is counted once
\* and each failure has its message (the rows are applied one by one, C38).
C21_UpdateBulk ==
    ret.fn = "updateMappingsBulk" =>
        LET updates == ret.args[1] IN
        /\ ret.result.updated + ret.result.failed = Len(updates)
        /\ Len(ret.result.errors) = ret.result.failed

\* importMappings went through its whole batch: one message per refused row,
\* the counts cover the other rows, and the last accepted row of each pair is
\* in the store.
C21_Import ==
    ret.fn = "importMappings" =>
        LET batch == ret.args[1] IN
        /\ Len(ret.result.errors) = CountOf(batch, ImportRowFails)
        /\ ret.result.imported + ret.result.updated = Len(batch) - CountOf(batch, ImportRowFails)
        /\ \A i \in 1..Len(batch) :
              (/\ ~ImportRowFails(batch[i])
               /\ \A j \in (i + 1)..Len(batch) :
                     ~(/\ ~ImportRowFails(batch[j])
                       /\ batch[j].category = batch[i].category
                       /\ batch[j].field_name = batch[i].field_name))
              => \E k \in RowsOf(mappings, batch[i].category, batch[i].field_name) :
                    /\ mappings[k].mapping_type = batch[i].mapping_type
                    /\ mappings[k].target_value = batch[i].target_value
                    /\ mappings[k].is_enabled = batch[i].is_enabled

\* saveProductOverridesBulk went through its whole batch: the call returns,
\* the count covers the rows stored, and the last storable row of each key is
\* in the store.
C21_OverridesBulk ==
    ret.fn = "saveProductOverridesBulk" =>
        LET list == ret.args[2]
            Refused(o) == StatementFails(overrideSchema, o.value)
        IN
        /\ ~ret.result.threw
        /\ ret.result.count = Len(list) - CountOf(list, Refused)
        /\ \A i \in 1..Len(list) :
              (/\ ~Refused(list[i])
               /\ \A j \in (i + 1)..Len(list) :
                     ~(/\ ~Refused(list[j])
                       /\ list[j].category = list[i].category
                       /\ list[j].field_name = list[i].field_name))
              => \E k \in OverridesOf(overrides, ret.args[1], list[i].category,
                                      list[i].field_name) :
                    overrides[k].value = TextColumn(list[i].value)

\* C21: no bulk operation aborts its batch on a failing row: every row is
\* attempted, the rows after a failing one are applied, the failure is in the
\* returned error list and the counts cover the rows that succeeded.
C21_BulkNeverAborts == C21_UpdateBulk /\ C21_Import /\ C21_OverridesBulk

----------------------------------------------------------------------------
(* Further claims about the job tracker *)

\* C22: the job of a creation is retrievable by the returned id, is queued,
\* carries the product id given and has the four steps fetch_product,
\* generate_description, process_images, create_ebay_listing in this order,
\* each pending and without startedAt, completedAt or result.
C22_CreatedJob ==
    lastOp.op = "create" =>
        /\ MapHas(jobs, lastOp.id)
        /\ LET job == GetPipelineJob(lastOp.id) IN
              /\ job.id = lastOp.id
              /\ job.status = "queued"
              /\ job.shopifyProductId = ProductOf(Len(created))
              /\ Len(job.steps) = 4
              /\ \A i \in 1..4 :
                    /\ job.steps[i].name =
                          <<"fetch_product", "generate_description", "process_images",
                            "create_ebay_listing">>[i]
                    /\ job.steps[i].status = "pending"
                    /\ job.steps[i].startedAt = NoTime
                    /\ job.steps[i].completedAt = NoTime
                    /\ job.steps[i].result = Undefined

\* A creation for the second product, made while the job of the first product
\* was already started.
C22_Witness ==
    /\ lastOp.op = "create"
    /\ Len(jobs) = 2
    /\ jobs[1].status = "processing"
    /\ GetPipelineJob(lastOp.id).shopifyProductId = "p2"

\* C23: getPipelineJobs returns every job of the store exactly once, from the
\* most recently created to the least recently created.
C23_NewestFirst ==
    LET list == GetPipelineJobs
        \* the creation number of the job at position i of the list
        creation(i) == born[Len(jobs) + 1 - i]
    IN  /\ Len(list) = Len(jobs)
        /\ \A k \in 1..Len(jobs) : Cardinality({i \in 1..Len(list) : list[i] = jobs[k]}) = 1
        /\ \A i, j \in 1..Len(list) : i < j => creation(i) > creation(j)

\* C24: updatePipelineStep on a job id that is not in the store (never created
\* or already evicted), or with a step name the job does not have, changes no
\* job, step, status or timestamp and creates no job. (The call has no throwing
\* path: every step of the model returns.)
C24_Missed == lastOp'.op = "update" /\ ~lastOp'.hit

C24_UpdateMissIsNoOp ==
    [][C24_Missed => /\ jobs' = jobs
                     /\ created' = created
                     /\ evicted' = evicted
                     /\ ~MapHas(jobs, lastOp'.id) => ~MapHas(jobs', lastOp'.id)]_vars

\* An update of a step that does not exist, aimed at a job that is in the store
\* and was created at an earlier clock value.
C24_Witness ==
    /\ lastOp.op = "update" /\ ~lastOp.hit
    /\ MapHas(jobs, lastOp.id)
    /\ now > jobs[MapIndex(jobs, lastOp.id)].updatedAt
    /\ Len(evicted) > 0

\* C25: startPipelineJob on a job of the store sets its status to processing and
\* changes nothing but that job's updatedAt: its steps, its other fields and all
\* other jobs stay as they were; on an id not in the store nothing changes.
C25_Started == lastOp'.op = "start"

C25_StartFrame ==
    [][C25_Started =>
        /\ created' = created /\ evicted' = evicted
        /\ Len(jobs') = Len(jobs)
        /\ \A k \in 1..Len(jobs) :
              IF jobs[k].id = lastOp'.id
              THEN jobs'[k] = [jobs[k] EXCEPT !.status = "processing",
                                              !.updatedAt = jobs'[k].updatedAt]
              ELSE jobs'[k] = jobs[k]]_vars

\* A started job whose first step was already done.
C25_Witness ==
    /\ lastOp.op = "start" /\ lastOp.hit
    /\ MapHas(jobs, lastOp.id)
    /\ LET job == jobs[MapIndex(jobs, lastOp.id)]
       IN job.status = "processing" /\ job.steps[1].status = "done"
                                     /\ job.updatedAt > job.createdAt

----------------------------------------------------------------------------
(* Further claims about the sync command *)

\* C26: every call of a step function is given the eBay token and the Shopify
\* token of its run and options that carry the command's dryRun flag and, when
\* --since was given, its date (under whatever key); since the options never
\* change, every repeated run of watch mode passes the same values.
C26_Carries(options, value) == \E key \in DOMAIN options : options[key] = value

C26_StepArguments ==
    \A r \in 1..MaxActive : \A k \in 1..Len(runs[r].calls) :
        LET call == runs[r].calls[k] IN
        /\ call.fn = SYNC_STEPS[k]
        /\ call.args[1] = runs[r].ebayToken
        /\ call.args[2] = runs[r].shopifyToken
        /\ call.args[3].dryRun = opts.dryRun
        /\ opts.since # Undefined => C26_Carries(call.args[3], opts.since)

\* C27: a run that passed the token checks has one report per finished step, in
\* step order, a summary for a step that returned and a failure message for one
\* that threw; a step is called only after every step before it was reported;
\* the completion marker is there exactly when the fourth step was reported,
\* once, as the last report, whether or not steps failed.
C27_Markers(run) == {i \in 1..Len(run.reports) : run.reports[i].kind = "complete"}

C27_ReportsPerStep ==
    \A r \in 1..MaxActive :
        LET run == runs[r]
            n == Len(run.settled)
        IN run.invoked # <<>> =>
            /\ Len(run.reports) = n + Cardinality(C27_Markers(run))
            /\ \A k \in 1..n :
                  /\ run.reports[k].step = SYNC_STEPS[k]
                  /\ run.reports[k].kind =
                        IF run.settled[k] \in ErrorMessages THEN "fail" ELSE "succeed"
                  /\ run.settled[k] \in ErrorMessages => run.reports[k].text = run.settled[k]
            /\ Len(run.invoked) <= n + 1
            /\ C27_Markers(run) = IF n = Len(SYNC_STEPS) THEN {n + 1} ELSE {}

\* A finished run all of whose four steps threw.
C27_Witness ==
    \E r \in 1..MaxActive :
        /\ runs[r].pc = "done"
        /\ Len(runs[r].settled) = Len(SYNC_STEPS)
        /\ \A k \in 1..Len(SYNC_STEPS) : runs[r].settled[k] \in ErrorMessages

----------------------------------------------------------------------------
(* Further claims about the mapping store *)

C28_Pairs == StoreKeys \cup {<<mappings[i].category, mappings[i].field_name>> : i \in 1..Len(mappings)}
C28_Enabled(pair) ==
    {i \in RowsOf(mappings, pair[1], pair[2]) : mappings[i].is_enabled = JsNumber(1)}

\* getMapping returns a row exactly when the pair has an enabled row, and then
\* that row; after an updateMapping that disabled the row it returns null.
C28_Lookup ==
    /\ \A pair \in C28_Pairs :
          IF C28_Enabled(pair) = {} THEN GetMapping(pair[1], pair[2]) = <<>>
          ELSE \E i \in C28_Enabled(pair) : GetMapping(pair[1], pair[2]) = <<mappings[i]>>
    /\ (/\ ret.fn = "updateMapping"
        /\ ret.result.row # <<>>
        /\ DOMAIN ret.args[3] = {"is_enabled"}
        /\ ~ret.args[3].is_enabled) => GetMapping(ret.args[1], ret.args[2]) = <<>>

\* A step of updateMapping that only sets is_enabled.
C28_Toggles == ret'.fn = "updateMapping" /\ DOMAIN ret'.args[3] = {"is_enabled"}
C28_Flag == IF ret'.args[3].is_enabled THEN JsNumber(1) ELSE JsNumber(0)

\* The statement as written: switching a rule off or on leaves every other
\* field of its row as it was, so that the re-enabled row is the old row.
C28_RowKept ==
    C28_Toggles =>
        /\ Len(mappings') = Len(mappings)
        /\ \A i \in 1..Len(mappings) :
              mappings'[i] =
                  IF i \in RowsOf(mappings, ret'.args[1], ret'.args[2])
                  THEN [mappings[i] EXCEPT !.is_enabled = C28_Flag]
                  ELSE mappings[i]

C28_GetMappingToggleKeepsRow == []C28_Lookup /\ [][C28_RowKept]_vars

\* C28 (amended): getMapping returns the row of a pair iff the pair has an
\* enabled row, null otherwise; after updateMapping disabled the row it returns
\* null; switching a rule off or on leaves every field of its row but
\* is_enabled and updated_at as it was (updated_at is set to the time of the
\* update), so that after enabling getMapping returns that row.
C28_RowKeptButStamp ==
    C28_Toggles =>
        /\ Len(mappings') = Len(mappings)
        /\ \A i \in 1..Len(mappings) :
              IF i \in RowsOf(mappings, ret'.args[1], ret'.args[2])
              THEN mappings'[i] = [mappings[i] EXCEPT !.is_enabled = C28_Flag,
                                                      !.updated_at = mappings'[i].updated_at]
              ELSE mappings'[i] = mappings[i]

C28_GetMappingToggle == []C28_Lookup /\ [][C28_RowKeptButStamp]_vars

\* A rule enabled by updateMapping some time after its row was written, and
\* returned by getMapping.
C28_Witness ==
    /\ ret.fn = "updateMapping"
    /\ DOMAIN ret.args[3] = {"is_enabled"}
    /\ ret.args[3].is_enabled
    /\ ret.result.row # <<>>
    /\ GetMapping(ret.args[1], ret.args[2]) = ret.result.row
    /\ ret.result.row[1].updated_at > ret.result.row[1].created_at

\* C29: no step of updateMapping, updateMappingsBulk or importMappings removes
\* a row: every row stays in the table under its id and its pair, so the set of
\* pairs never shrinks; a pair that getMapping no longer answers for still has
\* its row, with is_enabled off.
C29_PairsOf(rows) == {<<rows[i].category, rows[i].field_name>> : i \in 1..Len(rows)}

C29_RowsStay ==
    /\ C29_PairsOf(mappings) \subseteq C29_PairsOf(mappings')
    /\ \A i \in 1..Len(mappings) :
          \E j \in 1..Len(mappings') :
              /\ mappings'[j].id = mappings[i].id
              /\ mappings'[j].category = mappings[i].category
              /\ mappings'[j].field_name = mappings[i].field_name
              /\ (mappings[i].is_enabled = JsNumber(1) /\ mappings'[j].is_enabled # JsNumber(1))
                     => mappings'[j].is_enabled = JsNumber(0)

C29_NeverDeleted == [][C29_RowsStay]_vars

\* An import that added a row while a rule of the table is switched off and
\* still has its row.
C29_Witness ==
    /\ ret.fn = "importMappings"
    /\ Len(mappings) > Len(SeedMappings)
    /\ \E i \in 1..Len(mappings) :
          /\ mappings[i].is_enabled = JsNumber(0)
          /\ GetMapping(mappings[i].category, mappings[i].field_name) = <<>>

----------------------------------------------------------------------------
(* Creations by several automations *)

\* C30: the creations of several automations interleave as whole calls; after
\* each the store holds at most MAX_JOBS jobs, a creation on a full store makes
\* exactly one job leave it, and that job is the one created earliest among the
\* jobs of the store.
C30_Creates == Len(created') = Len(created) + 1
C30_Gone == SeqRange(born) \ SeqRange(born')

C30_OneEviction ==
    C30_Creates =>
        /\ Len(jobs') <= MAX_JOBS
        /\ Len(jobs) = MAX_JOBS =>
              /\ Cardinality(C30_Gone) = 1
              /\ \A n \in C30_Gone : \A m \in SeqRange(born) : n <= m

C30_AtomicCreation == [][C30_OneEviction]_vars

----------------------------------------------------------------------------
(* Writers of one job *)

\* The status the steps of a job call for.
C31_Derived(steps) ==
    IF \A i \in 1..Len(steps) : steps[i].status = "done" THEN "done"
    ELSE IF \E i \in 1..Len(steps) : steps[i].status = "error" THEN "error"
    ELSE "processing"

\* A step of the model made by an updatePipelineStep that found its job and step.
C31_Updates == lastOp'.op = "update" /\ lastOp'.hit /\ now' = now

\* C31: whatever the order in which writers report on a job, every
\* updatePipelineStep takes effect as a whole: the step reported on has one of
\* the reported statuses, every other step keeps what earlier updates gave it,
\* and the job status is the one derived from the steps as they are after the
\* call.
C31_WholeUpdate ==
    C31_Updates =>
        LET n == MapIndex(jobs, lastOp'.id)
            k == OpenStep(jobs[n])
        IN  /\ Len(jobs') = Len(jobs)
            /\ jobs'[n].steps[k].status \in WriterStatuses
            /\ \A i \in 1..Len(jobs[n].steps) :
                  i # k => jobs'[n].steps[i] = jobs[n].steps[i]
            /\ jobs'[n].status = C31_Derived(jobs'[n].steps)

C31_UpdatesAreAtomic == [][C31_WholeUpdate]_vars

\* A job brought to done by updates made at different times, one step reported
\* as begun before it was done and one reported done straight away.
C31_Witness ==
    /\ lastOp.op = "update" /\ lastOp.hit
    /\ MapHas(jobs, lastOp.id)
    /\ LET job == GetPipelineJob(lastOp.id) IN
          /\ job.status = "done"
          /\ job.steps[1].completedAt < job.steps[4].completedAt
          /\ \E i \in 1..4 : job.steps[i].startedAt # NoTime
          /\ \E i \in 1..4 : job.steps[i].startedAt = NoTime

----------------------------------------------------------------------------
(* Independence of jobs *)

\* The position of the step the updates of FrameSpec name.
C32_Named == CHOOSE i \in 1..Len(STEP_NAMES) : STEP_NAMES[i] = "fetch_product"

\* C32: a startPipelineJob or updatePipelineStep aimed at one job leaves every
\* other job as it was (status, steps, timestamps), keeps every job in the store
\* and at its position in the eviction order, and an update changes no step of
\* its job but the one it names.
C32_OthersUntouched ==
    lastOp'.op \in {"start", "update"} =>
        /\ Len(jobs') = Len(jobs)
        /\ born' = born
        /\ evicted' = evicted
        /\ \A k \in 1..Len(jobs) :
              /\ jobs'[k].id = jobs[k].id
              /\ jobs[k].id # lastOp'.id => jobs'[k] = jobs[k]
              /\ (jobs[k].id = lastOp'.id /\ lastOp'.op = "update") =>
                    \A i \in 1..Len(jobs[k].steps) :
                        i # C32_Named => jobs'[k].steps[i] = jobs[k].steps[i]

C32_JobsIndependent == [][C32_OthersUntouched]_vars

\* Two jobs in the store, the first one started, the second one updated later.
C32_Witness ==
    /\ Len(jobs) = 2
    /\ lastOp.op = "update" /\ lastOp.hit
    /\ jobs[2].id = lastOp.id
    /\ jobs[2].steps[1].status = "done"
    /\ jobs[2].updatedAt > jobs[1].updatedAt
    /\ jobs[1].status = "processing"
    /\ jobs[1].steps[1].status = "pending"

----------------------------------------------------------------------------
(* Step timestamps and results *)

\* In every state a step that is done or in error has completedAt, and a step
\* that is running has startedAt.
C33_Stamped ==
    \A n \in 1..Len(jobs) : \A i \in 1..Len(jobs[n].steps) :
        LET step == jobs[n].steps[i] IN
        /\ step.status \in {"done", "error"} => step.completedAt # NoTime
        /\ step.status = "running" => step.startedAt # NoTime

\* An update to running sets startedAt to the time of the call and leaves
\* completedAt and, no result being given, the stored result; an update to done
\* or error sets completedAt to the time of the call, leaves startedAt and
\* stores the result given.
C33_Stamps ==
    (lastOp'.op = "update" /\ lastOp'.hit /\ now' = now) =>
        LET n == MapIndex(jobs, lastOp'.id)
            k == OpenStep(jobs[n])
            old == jobs[n].steps[k]
            new == jobs'[n].steps[k]
        IN  /\ new.status = "running" =>
                  /\ new.startedAt = now
                  /\ new.completedAt = old.completedAt
                  /\ new.result = old.result
            /\ new.status \in {"done", "error"} =>
                  /\ new.completedAt = now
                  /\ new.startedAt = old.startedAt
                  /\ new.result = ResultFor(new.status)

\* C33: step timestamps follow the step's status and results are stored when
\* given, so that a done or failed step always has completedAt and a running
\* step always has startedAt.
C33_TimestampsFollowStatus == []C33_Stamped /\ [][C33_Stamps]_vars

\* A failed step taken up again at a later time: it is running, stamped with the
\* time of the retry, and still holds the result of the failure.
C33_Witness ==
    \E n \in 1..Len(jobs) : \E i \in 1..Len(jobs[n].steps) :
        LET step == jobs[n].steps[i] IN
        /\ lastOp.op = "update" /\ lastOp.hit
        /\ step.status = "running"
        /\ step.result = "failed"
        /\ step.startedAt > step.completedAt
        /\ step.completedAt # NoTime

----------------------------------------------------------------------------
(* The shape of a job *)

\* C34: every stored job has exactly four steps, named fetch_product,
\* generate_description, process_images, create_ebay_listing in this order,
\* each with a status among pending, running, done, error, and the job status
\* is among queued, processing, done, error. (As this holds in every state, no
\* operation adds, removes, renames or reorders steps.)
C34_JobShape ==
    \A n \in 1..Len(jobs) :
        /\ Len(jobs[n].steps) = 4
        /\ [i \in 1..4 |-> jobs[n].steps[i].name] =
              <<"fetch_product", "generate_description", "process_images",
                "create_ebay_listing">>
        /\ \A i \in 1..4 : jobs[n].steps[i].status \in {"pending", "running", "done", "error"}
        /\ jobs[n].status \in {"queued", "processing", "done", "error"}

\* A job in error whose steps show done, error and pending.
C34_Witness ==
    \E n \in 1..Len(jobs) :
        /\ jobs[n].status = "error"
        /\ jobs[n].steps[1].status = "done"
        /\ jobs[n].steps[2].status = "error"
        /\ jobs[n].steps[3].status = "pending"

----------------------------------------------------------------------------
(* What a job status tells about the job *)

\* A job on which no start and no update has acted: it is as createPipelineJob
\* built it.
C35_Untouched(job) ==
    /\ job.updatedAt = job.createdAt
    /\ \A i \in 1..Len(job.steps) :
          /\ job.steps[i].status = "pending"
          /\ job.steps[i].startedAt = NoTime
          /\ job.steps[i].completedAt = NoTime
          /\ job.steps[i].result = Undefined

C35_StatusTells ==
    \A n \in 1..Len(jobs) :
        /\ jobs[n].status = "done" => \A i \in 1..4 : jobs[n].steps[i].status = "done"
        /\ jobs[n].status = "error" => \E i \in 1..4 : jobs[n].steps[i].status = "error"
        /\ jobs[n].status = "queued" => C35_Untouched(jobs[n])

\* A start or an update that reaches its job leaves it not queued, and a job
\* that is not queued is never queued again (a job is one creation: `born`
\* tells a job from a later one created under the same id).
C35_NeverQueuedAgain ==
    /\ (lastOp'.op \in {"start", "update"} /\ lastOp'.hit /\ now' = now) =>
          jobs'[MapIndex(jobs, lastOp'.id)].status # "queued"
    /\ \A n \in 1..Len(jobs) :
          (n <= Len(jobs') /\ born'[n] = born[n] /\ jobs[n].status # "queued") =>
              jobs'[n].status # "queued"

\* C35: a job is done only if all four steps are done, in error only if a step
\* is in error, and queued only if neither startPipelineJob nor
\* updatePipelineStep has acted on it; a job never returns to queued.
C35_StatusSoundness == []C35_StatusTells /\ [][C35_NeverQueuedAgain]_vars

\* A started job whose second step failed after its first step was done.
C35_Witness ==
    \E n \in 1..Len(jobs) :
        /\ jobs[n].status = "error"
        /\ jobs[n].steps[1].status = "done"
        /\ jobs[n].steps[2].status = "error"
        /\ jobs[n].steps[2].completedAt > jobs[n].createdAt
        /\ lastOp.op = "update"

----------------------------------------------------------------------------
(* The job status after the job finished *)

C36_AllDone(job) == \A i \in 1..4 : job.steps[i].status = "done"
C36_AnyError(job) == \E i \in 1..4 : job.steps[i].status = "error"
\* A step update has acted on the job.
C36_Updated(job) ==
    \E i \in 1..4 : \/ job.steps[i].status # "pending"
                    \/ job.steps[i].startedAt # NoTime
                    \/ job.steps[i].completedAt # NoTime

\* The statement as written: once a step update has acted on a job, all steps
\* done means status done, and otherwise a step in error means status error, in
\* every state, also after a later startPipelineJob.
C36_StatusComplete ==
    \A n \in 1..Len(jobs) :
        C36_Updated(jobs[n]) =>
            /\ C36_AllDone(jobs[n]) => jobs[n].status = "done"
            /\ (~C36_AllDone(jobs[n]) /\ C36_AnyError(jobs[n])) => jobs[n].status = "error"

\* C36 (amended): right after an updatePipelineStep that found its job and
\* step, all steps done means status done and otherwise a step in error means
\* status error; right after a startPipelineJob that found its job the status
\* is processing whatever the steps are, so a start issued after the job
\* finished moves it back to processing.
C36_StatusCompleteAfterUpdate ==
    /\ (lastOp.op = "update" /\ lastOp.hit) =>
          LET job == GetPipelineJob(lastOp.id) IN
          /\ C36_AllDone(job) => job.status = "done"
          /\ (~C36_AllDone(job) /\ C36_AnyError(job)) => job.status = "error"
    /\ (lastOp.op = "start" /\ lastOp.hit) => GetPipelineJob(lastOp.id).status = "processing"

\* A finished job that a later startPipelineJob moved back to processing.
C36_Witness ==
    /\ lastOp.op = "start" /\ lastOp.hit
    /\ C36_AllDone(GetPipelineJob(lastOp.id))
    /\ GetPipelineJob(lastOp.id).status = "processing"

----------------------------------------------------------------------------
(* The frame of updateMapping *)

\* The value a column holds after an update that names it: the value given,
\* the flag as 1 or 0, and of an array of one string, which is off the
\* declared type, that string.
C37_Stored(updates, field) ==
    IF field = "is_enabled" THEN (IF updates.is_enabled THEN JsNumber(1) ELSE JsNumber(0))
    ELSE IF field = "mapping_type" THEN updates.mapping_type
    ELSE IF updates[field].t = "array" THEN updates[field].items[1]
    ELSE updates[field]

\* The values of the update are of the declared type: a string or null.
C37_Declared(updates) ==
    \A f \in DOMAIN updates \cap {"source_value", "target_value", "variation_mapping"} :
        updates[f].t \in {"string", "null"}

\* C37: updateMapping(category, field, updates) changes, in the one row of the
\* pair and whether or not that row is enabled, the columns named in updates
\* (to the values given) and updated_at, and nothing else; every other row is
\* left as it was; when updates names no column or no row has the pair, it
\* returns null and the table is unchanged.  (A call the database rejects
\* changes nothing either; a value off the declared type that the driver
\* refuses makes the call throw also when no row has the pair.)
C37_Frame ==
    (ret'.fn = "updateMapping" /\ now' = now) =>
        LET category == ret'.args[1]
            fieldName == ret'.args[2]
            updates == ret'.args[3]
            named == DOMAIN updates \cap
                        {"mapping_type", "source_value", "target_value", "variation_mapping",
                         "is_enabled"}
            hit == {i \in 1..Len(mappings) : /\ mappings[i].category = category
                                             /\ mappings[i].field_name = fieldName}
        IN  /\ Len(mappings') = Len(mappings)
            /\ Cardinality(hit) <= 1
            /\ \A i \in 1..Len(mappings) :
                  IF i \notin hit THEN mappings'[i] = mappings[i]
                  ELSE /\ \A col \in DOMAIN mappings[i] \ (named \cup {"updated_at"}) :
                             mappings'[i][col] = mappings[i][col]
                       /\ IF ret'.result.threw THEN mappings'[i] = mappings[i]
                          ELSE \A col \in named : mappings'[i][col] = C37_Stored(updates, col)
            /\ ret'.result.threw => mappings' = mappings
            /\ (C37_Declared(updates) /\ "mapping_type" \notin named) => ~ret'.result.threw
            /\ (named = {} \/ hit = {}) =>
                  /\ ret'.result.row = <<>>
    /\ ret.result.row[1] \in {mappings[i] : i \in 1..Len(mappings)}
    /\ Len(mappings) > 1

----------------------------------------------------------------------------
(* The counts of updateMappingsBulk *)

\* A row of a bulk update whose statement changes a stored mapping: its pair has
\* a row, it names a column, the driver binds its values to the statement
\* (one value for each column named) and the database does not reject it.
C38_Changes(update) ==
    /\ \E i \in 1..Len(mappings) : /\ mappings[i].category = update.category
                                   /\ mappings[i].field_name = update.field_name
    /\ DOMAIN update.updateData \cap
          {"mapping_type", "source_value", "target_value", "variation_mapping", "is_enabled"} # {}
    /\ UpdateStatement(update.updateData).error = JsUndefined
    /\ ~("mapping_type" \in DOMAIN update.updateData /\ update.updateData.mapping_type = Null)

C38_Misses(update) == ~C38_Changes(update)

\* While a call is in progress every row it has been through is counted once,
\* with one message per failed row.
C38_Counted ==
    bulk.active =>
        /\ bulk.i <= Len(bulk.args)
        /\ bulk.updated + bulk.failed = bulk.i
        /\ Len(bulk.errors) = bulk.failed

\* One turn of the loop counts its row as updated when its update changed a
\* stored mapping and as failed, with a message naming its pair, when not.
C38_Row ==
    (bulk.active /\ bulk'.active /\ bulk'.i = bulk.i + 1) =>
        LET update == bulk.args[bulk.i + 1] IN
        IF C38_Changes(update)
        THEN /\ bulk'.updated = bulk.updated + 1
             /\ bulk'.failed = bulk.failed
             /\ bulk'.errors = bulk.errors
        ELSE /\ bulk'.updated = bulk.updated
             /\ bulk'.failed = bulk.failed + 1
             /\ Len(bulk'.errors) = Len(bulk.errors) + 1
             /\ SubSeq(bulk'.errors, 1, Len(bulk.errors)) = bulk.errors
             /\ bulk'.errors[Len(bulk'.errors)][2] = update.category
             /\ bulk'.errors[Len(bulk'.errors)][3] = update.field_name
             /\ mappings' = mappings

\* The call returns the counters of its loop, which cover the whole input.
C38_Return ==
    (bulk.active /\ ~bulk'.active) =>
        /\ ret'.fn = "updateMappingsBulk"
        /\ ret'.args = <<bulk.args>>
        /\ ret'.result = [updated |-> bulk.updated, failed |-> bulk.failed, errors |-> bulk.errors]
        /\ ret'.result.updated + ret'.result.failed = Len(bulk.args)
        /\ Len(ret'.result.errors) = ret'.result.failed

\* C38: the counts of updateMappingsBulk cover every input row once: updated is
\* the number of rows whose update changed a stored mapping, failed the number
\* of the others, and errors holds one message per failed row, naming its pair,
\* in the order of the input; whatever other calls run between the rows.
C38_BulkCounts == []C38_Counted /\ [][C38_Row /\ C38_Return]_vars

\* A bulk update of two rows returned: the first row found no row for its
\* pair, which was imported before the call returned, and the second, whose
\* value is an array of one string, changed a mapping.
C38_Witness ==
    /\ ret.fn = "updateMappingsBulk"
    /\ Len(ret.args[1]) = 2
    /\ ret.args[1][2].updateData = [target_value |-> JsArray(<<JsString(Str.new)>>)]
    /\ ret.result.updated = 1
    /\ ret.result.failed = 1
    /\ ret.result.errors = << <<"Failed to update", "listing", "title">> >>
    /\ RowsOf(mappings, "listing", "title") # {}
    /\ \E i \in RowsOf(mappings, "listing", "condition") :
          mappings[i].target_value = JsString(Str.new)

----------------------------------------------------------------------------
(* Export and import *)

\* An import of the list exportMappings returned in the state before.
C39_ImportsExport ==
    ret'.fn = "importMappings" /\ now' = now /\ ret'.args[1] \in ExportMappings

\* The same list imported again (the clock may have advanced meanwhile).
C39_ImportsAgain ==
    ret'.fn = "importMappings" /\ ret.fn = "importMappings" /\ ret'.args = ret.args

\* Importing what was exported adds no row and leaves every row's columns other
\* than updated_at as they were.
C39_RoundTrip ==
    C39_ImportsExport =>
        /\ Len(mappings') = Len(mappings)
        /\ \A i \in 1..Len(mappings) :
              \A col \in DOMAIN mappings[i] \ {"updated_at"} :
                  mappings'[i][col] = mappings[i][col]

\* The statement as written: the round trip keeps the rows, and a second import
\* of a list leaves the store as the first import left it.
C39_SameStore == C39_ImportsAgain => mappings' = mappings

C39_ExportImportIdempotent == [][C39_RoundTrip /\ C39_SameStore]_vars

\* C39 (amended): importMappings applied to the result of exportMappings adds
\* no row and leaves category, field_name, mapping_type, source_value,
\* target_value, variation_mapping, is_enabled and display_order (and id and
\* created_at) of every row unchanged; importing a list a second time leaves
\* the store as the first import left it except for updated_at, which every
\* import sets anew on the rows it writes.
C39_SameStoreButStamp ==
    C39_ImportsAgain =>
        /\ Len(mappings') = Len(mappings)
        /\ \A i \in 1..Len(mappings) :
              mappings'[i] = [mappings[i] EXCEPT !.updated_at = mappings'[i].updated_at]

C39_ExportImportRoundTrip == [][C39_RoundTrip /\ C39_SameStoreButStamp]_vars

\* The exported table, with a disabled rule in it, imported a second time, at
\* a later time than the first, in an order other than that of the ids.
C39_Witness ==
    /\ ret.fn = "importMappings"
    /\ ret.since < now
    /\ Len(ret.args[1]) = Len(mappings)
    /\ Len(mappings) > 1
    /\ \A i \in 1..Len(mappings) :
          /\ "id" \in DOMAIN ret.args[1][i]
          /\ ret.args[1][i].updated_at <= ret.since
          /\ mappings[i].updated_at > mappings[i].created_at
          /\ \E j \in 1..Len(mappings) :
                ret.args[1][i] = [mappings[j] EXCEPT !.updated_at = ret.args[1][i].updated_at]
    /\ ret.args[1][1].id > ret.args[1][2].id
    /\ \E i \in 1..Len(mappings) : mappings[i].is_enabled = JsNumber(0)

----------------------------------------------------------------------------
(* The counts of importMappings *)

\* The counts the rows of a batch call for, given the pairs the store holds
\* when the batch starts: a refused row counts as neither, a row whose pair is
\* held counts as updated, any other row as imported (and its pair is held
\* from then on).
RECURSIVE C40_Expected(_, _)
C40_Expected(pairs, batch) ==
    IF batch = <<>> THEN [imported |-> 0, updated |-> 0]
    ELSE LET mapping == Head(batch)
             pair == <<mapping.category, mapping.field_name>>
         IN  IF ImportRowFails(mapping) THEN C40_Expected(pairs, Tail(batch))
             ELSE IF pair \in pairs
             THEN [C40_Expected(pairs, Tail(batch)) EXCEPT !.updated = @ + 1]
             ELSE [C40_Expected(pairs \cup {pair}, Tail(batch)) EXCEPT !.imported = @ + 1]

\* The sum of the counts and the errors is the number of input rows.
C40_Sum ==
    ret'.fn = "importMappings" =>
        ret'.result.imported + ret'.result.updated + Len(ret'.result.errors)
            = Len(ret'.args[1])

\* C40: importMappings counts a row as updated when its pair was in the store
\* and as imported when it was not, and imported + updated + the number of
\* errors is the number of input rows.
C40_Classified ==
    ret'.fn = "importMappings" =>
        LET expected == C40_Expected(C29_PairsOf(mappings), ret'.args[1]) IN
        /\ ret'.result.imported = expected.imported
        /\ ret'.result.updated = expected.updated

C40_ImportCounts == [][C40_Sum /\ C40_Classified]_vars

C40_CountsAddUp == [][C40_Sum]_vars

====
